---- MODULE Spec2Model ----
(***************************************************************************)
(* Signal-frame generators of src/utils/protocolLogic.ts: UART, I2C       *)
(* (standard write and two-master arbitration) and SPI.  Each generator   *)
(* is a straight-line function with one or two for-loops; the model runs  *)
(* it as a small state machine over the function's locals (frames,        *)
(* idCounter, the loop index i, the arbitration loss flags), one action   *)
(* per straight-line block and one per loop iteration.                    *)
(***************************************************************************)
EXTENDS Integers, Sequences, FiniteSets, TLC

\* ---------------------------------------------------------------- bounds
\* Largest character code, address and SPI mode offered as input, and the
\* number (less one) of sampled bytes where a full cross product of the
\* inputs is out of reach.
MaxCharCode == 257
MaxAddrIn == 129
MaxDataIn == 39
MaxArbAddrIn == 129
MaxArbSample == 49
MaxSpiByteIn == 31
MaxMode == 3
MaxBusSample == 39
MaxGenSample == 15
MaxCalls == 3
MaxResolution == 4
MaxVRef == 6
MaxDacValue == 40

\* resolutions down to -MaxInvalidResolution are passed to the converters
MaxInvalidResolution == 2

\* the user starts a run only while the log holds fewer entries than this
MaxLogs == 3

\* protocol switches and input changes made after the first run
MaxEdits == 1

VARIABLES
    gen,          \* which generator is being called
    args,         \* its arguments, a record named after the parameters
    frames,       \* const frames: ...[] = []
    idCounter,    \* let idCounter = 0
    masterALost,  \* let masterALost = false   (arbitration only)
    masterBLost,  \* let masterBLost = false   (arbitration only)
    i,            \* the loop variable of the running for-loop
    pc,           \* position in the function body
    returned,     \* the calls that have returned: {[gen, args, frames]}
    inputVoltage, \* ADCVisualizer: useState(1.65)
    steps,        \* ADCVisualizer.sarSteps: const steps = []
    currentDacVal, \* ADCVisualizer.sarSteps: let currentDacVal = 0
    adcOut,       \* ADCVisualizer: the values one render derives
    dacOut,       \* DACVisualizer: the values one render derives
    app           \* App: its useState values and pending work, one field each

\* the state of the ADC component
adcVars == <<inputVoltage, steps, currentDacVal, adcOut>>

\* the state of the DAC component and of the App
uiVars == <<dacOut, app>>

vars == <<gen, args, frames, idCounter, masterALost, masterBLost, i, pc,
          returned, adcVars, uiVars>>

\* ------------------------------------------------------------ primitives
\* durations are rationals <<numerator, denominator>>
One == <<1, 1>>
Half == <<1, 2>>

\* (x >> n) & 1 for a non-negative x below 2^31
Bit(x, n) == (x \div (2 ^ n)) % 2

\* the decimal text of a loop index, as the template literal `${i}` prints it
DigitStr(n) == <<"0", "1", "2", "3", "4", "5", "6", "7">>[n + 1]

\* the function's mutable locals as one value
Locals ==
    [frames |-> frames, idCounter |-> idCounter,
     masterALost |-> masterALost, masterBLost |-> masterBLost]

\* mutant: a call that starts with the lost flags the previous call left
FreshLocalsStaleFlags ==
    [frames |-> <<>>, idCounter |-> 0,
     masterALost |-> masterALost, masterBLost |-> masterBLost]

\* mutant: a call that starts from the counter the previous call left
FreshLocalsStaleCounter ==
    [frames |-> <<>>, idCounter |-> idCounter,
     masterALost |-> FALSE, masterBLost |-> FALSE]

FreshLocals ==
    [frames |-> <<>>, idCounter |-> 0,
     masterALost |-> FALSE, masterBLost |-> FALSE]

SetLocals(L) ==
    /\ frames' = L.frames
    /\ idCounter' = L.idCounter
    /\ masterALost' = L.masterALost
    /\ masterBLost' = L.masterBLost

\* frames.push({ id: idCounter++, ...fields })
Push(L, fields) ==
    [L EXCEPT !.frames = Append(@, [id |-> L.idCounter] @@ fields),
              !.idCounter = @ + 1]

\* ------------------------------------------------------------------ UART
UARTFrame(label, level, type, duration) ==
    [label |-> label, level |-> level, type |-> type, duration |-> duration]

\* char.charCodeAt(0)
ascii == args.char[1]

\* lines 11-15: idle and start frames
UARTHead(L) ==
    LET L1 == Push(L, UARTFrame("Idle", 1, "idle", One))
    IN  Push(L1, UARTFrame("Start", 0, "start", One))

\* mutant: the data bits sent most significant bit first
UARTBitMsbFirst(L, code, n) ==
    Push(L, UARTFrame("D" \o DigitStr(n), Bit(code, 7 - n), "data", One))

\* lines 18-27: one iteration of the data loop
UARTBit(L, code, n) ==
    Push(L, UARTFrame("D" \o DigitStr(n), Bit(code, n), "data", One))

\* lines 29-33: stop and closing idle frames
UARTTail(L) ==
    LET L1 == Push(L, UARTFrame("Stop", 1, "stop", One))
    IN  Push(L1, UARTFrame("Idle", 1, "idle", One))

UARTStart ==
    /\ gen = "UART" /\ pc = "ready"
    /\ IF Len(args.char) = 0
         THEN /\ SetLocals(FreshLocals)
              /\ pc' = "done"
              /\ i' = i
         ELSE /\ SetLocals(UARTHead(FreshLocals))
              /\ i' = 0
              /\ pc' = "uart_data"
    /\ UNCHANGED <<uiVars, returned, adcVars, gen, args>>

UARTDataBit ==
    /\ pc = "uart_data" /\ i < 8
    /\ SetLocals(UARTBit(Locals, ascii, i))
    /\ i' = i + 1
    /\ UNCHANGED <<uiVars, returned, adcVars, gen, args, pc>>

UARTStop ==
    /\ pc = "uart_data" /\ ~(i < 8)
    /\ SetLocals(UARTTail(Locals))
    /\ pc' = "done"
    /\ UNCHANGED <<uiVars, returned, adcVars, gen, args, i>>

\* ------------------------------------------------------------------- I2C
I2CFrame(label, sda, scl, type, duration) ==
    [label |-> label, sda |-> sda, scl |-> scl, type |-> type,
     duration |-> duration]

\* mutant: the closing clock-low frame of a bit slot left out
I2CSlotNoHold(L, label, sda, type) ==
    LET L1 == Push(L, I2CFrame(label, sda, 0, type, Half))
    IN  Push(L1, I2CFrame(label, sda, 1, type, Half))

\* three frames of one bit slot: clock low, clock high, clock low
I2CSlot(L, label, sda, type) ==
    LET L1 == Push(L, I2CFrame(label, sda, 0, type, Half))
        L2 == Push(L1, I2CFrame(label, sda, 1, type, Half))
    IN  Push(L2, I2CFrame(label, sda, 0, type, Half))

\* mutant: the clock-low settle frame after the start condition left out
I2CHeadNoSettle(L) ==
    LET L1 == Push(L, I2CFrame("Idle", 1, 1, "idle", One))
    IN  Push(L1, I2CFrame("Start", 0, 1, "start", One))

\* lines 43-49
I2CHead(L) ==
    LET L1 == Push(L, I2CFrame("Idle", 1, 1, "idle", One))
        L2 == Push(L1, I2CFrame("Start", 0, 1, "start", One))
    IN  Push(L2, I2CFrame("", 0, 0, "start", Half))

\* mutant: the address shifted by one bit too many
I2CAddrBitShifted(L, address, n) ==
    I2CSlot(L, "A" \o DigitStr(n), Bit(address, n + 1), "address")

\* lines 52-59, one iteration
I2CAddrBit(L, address, n) ==
    I2CSlot(L, "A" \o DigitStr(n), Bit(address, n), "address")

\* lines 61-69: write bit, then the slave's acknowledge
I2CWriteAck(L) ==
    I2CSlot(I2CSlot(L, "W", 0, "address"), "ACK", 0, "ack")

\* lines 72-77, one iteration
I2CDataBitFrames(L, data, n) ==
    I2CSlot(L, "D" \o DigitStr(n), Bit(data, n), "data")

\* mutant: the stop condition without its final frame, SDA never rises
I2CAckStopNoRise(L) ==
    LET L1 == I2CSlot(L, "ACK", 0, "ack")
        L2 == Push(L1, I2CFrame("Stop", 0, 0, "stop", Half))
    IN  Push(L2, I2CFrame("Stop", 0, 1, "stop", Half))

\* lines 79-87: acknowledge for the data byte, then the stop condition
I2CAckStop(L) ==
    LET L1 == I2CSlot(L, "ACK", 0, "ack")
        L2 == Push(L1, I2CFrame("Stop", 0, 0, "stop", Half))
        L3 == Push(L2, I2CFrame("Stop", 0, 1, "stop", Half))
    IN  Push(L3, I2CFrame("Stop", 1, 1, "stop", One))

I2CStart ==
    /\ gen = "I2C" /\ pc = "ready"
    /\ SetLocals(I2CHead(FreshLocals))
    /\ i' = 6
    /\ pc' = "i2c_addr"
    /\ UNCHANGED <<uiVars, returned, adcVars, gen, args>>

I2CAddressBit ==
    /\ pc = "i2c_addr" /\ i >= 0
    /\ SetLocals(I2CAddrBit(Locals, args.address, i))
    /\ i' = i - 1
    /\ UNCHANGED <<uiVars, returned, adcVars, gen, args, pc>>

I2CWrite ==
    /\ pc = "i2c_addr" /\ ~(i >= 0)
    /\ SetLocals(I2CWriteAck(Locals))
    /\ i' = 7
    /\ pc' = "i2c_data"
    /\ UNCHANGED <<uiVars, returned, adcVars, gen, args>>

I2CDataBit ==
    /\ pc = "i2c_data" /\ i >= 0
    /\ SetLocals(I2CDataBitFrames(Locals, args.data, i))
    /\ i' = i - 1
    /\ UNCHANGED <<uiVars, returned, adcVars, gen, args, pc>>

I2CStop ==
    /\ pc = "i2c_data" /\ ~(i >= 0)
    /\ SetLocals(I2CAckStop(Locals))
    /\ pc' = "done"
    /\ UNCHANGED <<uiVars, returned, adcVars, gen, args, i>>

\* ------------------------------------------------------- I2C arbitration
\* mutant: the bus is low only when both masters drive low (wired-OR)
addFrameWiredOr(L, label, sdaA, sdaB, scl, type, duration) ==
    LET effectiveA == IF L.masterALost THEN 1 ELSE sdaA
        effectiveB == IF L.masterBLost THEN 1 ELSE sdaB
        busSda == IF effectiveA = 0 /\ effectiveB = 0 THEN 0 ELSE 1
    IN  Push(L, [label |-> label, sda |-> busSda, scl |-> scl, type |-> type,
                 duration |-> duration, sdaA |-> effectiveA,
                 sdaB |-> effectiveB,
                 masterAState |-> IF L.masterALost THEN "lost" ELSE "active",
                 masterBState |-> IF L.masterBLost THEN "lost" ELSE "active"])

\* mutant: a lost master keeps driving its own level
addFrameNoRelease(L, label, sdaA, sdaB, scl, type, duration) ==
    LET effectiveA == sdaA
        effectiveB == sdaB
        busSda == IF effectiveA = 0 \/ effectiveB = 0 THEN 0 ELSE 1
    IN  Push(L, [label |-> label, sda |-> busSda, scl |-> scl, type |-> type,
                 duration |-> duration, sdaA |-> effectiveA,
                 sdaB |-> effectiveB,
                 masterAState |-> IF L.masterALost THEN "lost" ELSE "active",
                 masterBState |-> IF L.masterBLost THEN "lost" ELSE "active"])

\* lines 100-119: addFrame, the wired-AND of the two effective drive levels
addFrame(L, label, sdaA, sdaB, scl, type, duration) ==
    LET effectiveA == IF L.masterALost THEN 1 ELSE sdaA
        effectiveB == IF L.masterBLost THEN 1 ELSE sdaB
        busSda == IF effectiveA = 0 \/ effectiveB = 0 THEN 0 ELSE 1
    IN  Push(L, [label |-> label, sda |-> busSda, scl |-> scl, type |-> type,
                 duration |-> duration, sdaA |-> effectiveA,
                 sdaB |-> effectiveB,
                 masterAState |-> IF L.masterALost THEN "lost" ELSE "active",
                 masterBState |-> IF L.masterBLost THEN "lost" ELSE "active"])

\* lines 121-126: idle, start condition, clock-low settle
ArbHead(L) ==
    LET L1 == addFrame(L, "Idle", 1, 1, 1, "idle", One)
        L2 == addFrame(L1, "Start", 0, 0, 1, "start", One)
    IN  addFrame(L2, "", 0, 0, 0, "start", Half)

\* mutant: the loser is the master that drives 0
ArbDetectSwapped(L, valA, valB) ==
    IF ~L.masterALost /\ ~L.masterBLost
      THEN IF valA = 1 /\ valB = 0
             THEN [L EXCEPT !.masterBLost = TRUE]
             ELSE IF valA = 0 /\ valB = 1
                    THEN [L EXCEPT !.masterALost = TRUE]
                    ELSE L
      ELSE L

\* mutant: master A loses whenever it proposes 1, whatever B proposes
ArbDetectNoCompare(L, valA, valB) ==
    IF ~L.masterALost /\ ~L.masterBLost
      THEN IF valA = 1
             THEN [L EXCEPT !.masterALost = TRUE]
             ELSE IF valA = 0 /\ valB = 1
                    THEN [L EXCEPT !.masterBLost = TRUE]
                    ELSE L
      ELSE L

\* lines 141-149: loss detection for the bit values valA, valB
ArbDetect(L, valA, valB) ==
    IF ~L.masterALost /\ ~L.masterBLost
      THEN IF valA = 1 /\ valB = 0
             THEN [L EXCEPT !.masterALost = TRUE]
             ELSE IF valA = 0 /\ valB = 1
                    THEN [L EXCEPT !.masterBLost = TRUE]
                    ELSE L
      ELSE L

\* lines 129-160, one iteration of the address loop
ArbBit(L, addrA, addrB, n) ==
    LET valA == Bit(addrA, n)
        valB == Bit(addrB, n)
        L0 == ArbDetect(L, valA, valB)
        label == "A" \o DigitStr(n)
        L1 == addFrame(L0, label, valA, valB, 0, "address", Half)
        L2 == addFrame(L1, label, valA, valB, 1, "address", Half)
    IN  addFrame(L2, label, valA, valB, 0, "address", Half)

\* lines 162-167: the shared write bit
ArbWrite(L) ==
    LET rwA == 0
        rwB == 0
        L1 == addFrame(L, "W", rwA, rwB, 0, "address", Half)
        L2 == addFrame(L1, "W", rwA, rwB, 1, "address", Half)
    IN  addFrame(L2, "W", rwA, rwB, 0, "address", Half)

\* mutant: the hand-built acknowledge frames tag both masters active
ArbAckFrameActive(L, scl) ==
    Push(L, [label |-> "ACK", sda |-> 0, scl |-> scl, type |-> "ack",
             duration |-> Half, sdaA |-> 1, sdaB |-> 1,
             masterAState |-> "active", masterBState |-> "active"])

\* lines 172-183: one acknowledge frame, pushed without addFrame
ArbAckFrame(L, scl) ==
    Push(L, [label |-> "ACK", sda |-> 0, scl |-> scl, type |-> "ack",
             duration |-> Half, sdaA |-> 1, sdaB |-> 1,
             masterAState |-> IF L.masterALost THEN "lost" ELSE "active",
             masterBState |-> IF L.masterBLost THEN "lost" ELSE "active"])

ArbAckFrames(L) ==
    ArbAckFrame(ArbAckFrame(ArbAckFrame(L, 0), 1), 0)

\* lines 185-188: the stop condition
ArbTail(L) ==
    LET L1 == addFrame(L, "Stop", 0, 0, 0, "stop", Half)
        L2 == addFrame(L1, "Stop", 0, 0, 1, "stop", Half)
    IN  addFrame(L2, "Stop", 1, 1, 1, "stop", One)

ArbStart ==
    /\ gen = "ARB" /\ pc = "ready"
    /\ SetLocals(ArbHead(FreshLocals))
    /\ i' = 6
    /\ pc' = "arb_addr"
    /\ UNCHANGED <<uiVars, returned, adcVars, gen, args>>

ArbAddressBit ==
    /\ pc = "arb_addr" /\ i >= 0
    /\ SetLocals(ArbBit(Locals, args.addrA, args.addrB, i))
    /\ i' = i - 1
    /\ UNCHANGED <<uiVars, returned, adcVars, gen, args, pc>>

ArbWriteBit ==
    /\ pc = "arb_addr" /\ ~(i >= 0)
    /\ SetLocals(ArbWrite(Locals))
    /\ pc' = "arb_ack"
    /\ UNCHANGED <<uiVars, returned, adcVars, gen, args, i>>

ArbAck ==
    /\ pc = "arb_ack"
    /\ SetLocals(ArbAckFrames(Locals))
    /\ pc' = "arb_stop"
    /\ UNCHANGED <<uiVars, returned, adcVars, gen, args, i>>

ArbStop ==
    /\ pc = "arb_stop"
    /\ SetLocals(ArbTail(Locals))
    /\ pc' = "done"
    /\ UNCHANGED <<uiVars, returned, adcVars, gen, args, i>>

\* ------------------------------------------------------------------- SPI
\* lines 199-203: mode decoding
cpolOf(mode) == IF Bit(mode, 1) # 0 THEN 1 ELSE 0
\* mutant: the phase decoded from the mode number, not from its bit 0
cphaOfByValue(mode) == IF mode \in {1, 3} THEN 1 ELSE 0

cphaOf(mode) == IF Bit(mode, 0) # 0 THEN 1 ELSE 0
idleSCKOf(mode) == cpolOf(mode)
activeSCKOf(mode) == 1 - cpolOf(mode)

\* lines 206-208: the SPI addFrame helper
spiAddFrame(L, label, cs, sck, mosi, miso, type, duration) ==
    Push(L, [label |-> label, cs |-> cs, sck |-> sck, mosi |-> mosi,
             miso |-> miso, type |-> type, duration |-> duration])

\* mutant: the idle frame with the clock low whatever the polarity
SPIHeadClockLow(L, mode) ==
    LET L1 == spiAddFrame(L, "Idle", 1, 0, 1, 1, "idle", One)
    IN  spiAddFrame(L1, "CS Low", 0, idleSCKOf(mode), 1, 1, "setup", Half)

\* lines 210-214: idle, chip-select falls
SPIHead(L, mode) ==
    LET L1 == spiAddFrame(L, "Idle", 1, idleSCKOf(mode), 1, 1, "idle", One)
    IN  spiAddFrame(L1, "CS Low", 0, idleSCKOf(mode), 1, 1, "setup", Half)

\* mutant: the two data lines exchanged
SPIBitLinesSwapped(L, dataTx, dataRx, mode, n) ==
    LET valTx == Bit(dataTx, n)
        valRx == Bit(dataRx, n)
        label == "D" \o DigitStr(n)
    IN  IF cphaOf(mode) = 0
          THEN spiAddFrame(
                 spiAddFrame(L, label, 0, idleSCKOf(mode), valRx, valTx,
                             "data", Half),
                 label, 0, activeSCKOf(mode), valRx, valTx, "data", Half)
          ELSE spiAddFrame(
                 spiAddFrame(L, label, 0, activeSCKOf(mode), valRx, valTx,
                             "data", Half),
                 label, 0, idleSCKOf(mode), valRx, valTx, "data", Half)

\* mutant: the two clock phases handled the wrong way round
SPIBitPhaseSwapped(L, dataTx, dataRx, mode, n) ==
    LET valTx == Bit(dataTx, n)
        valRx == Bit(dataRx, n)
        label == "D" \o DigitStr(n)
    IN  IF cphaOf(mode) # 0
          THEN spiAddFrame(
                 spiAddFrame(L, label, 0, idleSCKOf(mode), valTx, valRx,
                             "data", Half),
                 label, 0, activeSCKOf(mode), valTx, valRx, "data", Half)
          ELSE spiAddFrame(
                 spiAddFrame(L, label, 0, activeSCKOf(mode), valTx, valRx,
                             "data", Half),
                 label, 0, idleSCKOf(mode), valTx, valRx, "data", Half)

\* lines 217-239, one iteration of the transfer loop
SPIBit(L, dataTx, dataRx, mode, n) ==
    LET valTx == Bit(dataTx, n)
        valRx == Bit(dataRx, n)
        label == "D" \o DigitStr(n)
    IN  IF cphaOf(mode) = 0
          THEN spiAddFrame(
                 spiAddFrame(L, label, 0, idleSCKOf(mode), valTx, valRx,
                             "data", Half),
                 label, 0, activeSCKOf(mode), valTx, valRx, "data", Half)
          ELSE spiAddFrame(
                 spiAddFrame(L, label, 0, activeSCKOf(mode), valTx, valRx,
                             "data", Half),
                 label, 0, idleSCKOf(mode), valTx, valRx, "data", Half)

\* mutant: chip-select rises straight after the last data frame
SPITailNoReturn(L, mode) ==
    spiAddFrame(L, "CS High", 1, idleSCKOf(mode), 1, 1, "idle", One)

\* lines 241-248: return the clock to idle (CPHA = 0 only), chip-select rises
SPITail(L, mode) ==
    LET L1 == IF cphaOf(mode) = 0
                THEN spiAddFrame(L, "", 0, idleSCKOf(mode), 1, 1, "idle", Half)
                ELSE L
    IN  spiAddFrame(L1, "CS High", 1, idleSCKOf(mode), 1, 1, "idle", One)

SPIStart ==
    /\ gen = "SPI" /\ pc = "ready"
    /\ SetLocals(SPIHead(FreshLocals, args.mode))
    /\ i' = 7
    /\ pc' = "spi_data"
    /\ UNCHANGED <<uiVars, returned, adcVars, gen, args>>

SPIDataBit ==
    /\ pc = "spi_data" /\ i >= 0
    /\ SetLocals(SPIBit(Locals, args.dataTx, args.dataRx, args.mode, i))
    /\ i' = i - 1
    /\ UNCHANGED <<uiVars, returned, adcVars, gen, args, pc>>

SPIEnd ==
    /\ pc = "spi_data" /\ ~(i >= 0)
    /\ SetLocals(SPITail(Locals, args.mode))
    /\ pc' = "done"
    /\ UNCHANGED <<uiVars, returned, adcVars, gen, args, i>>

\* ------------------------------------------------------- specifications
\* the locals before the call: nothing built yet
InitLocals ==
    /\ frames = <<>>
    /\ idCounter = 0
    /\ masterALost = FALSE
    /\ masterBLost = FALSE
    /\ i = 0
    /\ pc = "ready"
    /\ returned = {}
    /\ inputVoltage = 0
    /\ steps = <<>>
    /\ currentDacVal = 0
    /\ adcOut = <<>>
    /\ dacOut = <<>>
    /\ app = <<>>

\* a character argument: the empty string or one UTF-16 code unit
CharInputs == {<<>>} \cup {<<c>> : c \in 0..MaxCharCode}

InitUART ==
    /\ gen = "UART"
    /\ args \in [char : CharInputs]
    /\ InitLocals

\* n + 1 bytes spread over 0..255 (37 is odd, so they are distinct and
\* every bit position takes both values)
ByteSamples(n) == {(b * 37) % 256 : b \in 0..n}

\* the values the App starts with (lines 325-326, 342-343, 346-347)
I2CDefaults == {66, 21}
ArbDefaults == {33, 37}
SPIDefaults == {240, 15}

InitI2C ==
    /\ gen = "I2C"
    /\ args \in [address : 0..MaxAddrIn,
                 data : ByteSamples(MaxDataIn) \cup I2CDefaults]
    /\ InitLocals

\* every address for master A against a spread of addresses for master B
\* (above and below it, so that either master can be the loser)
InitArb ==
    /\ gen = "ARB"
    /\ args \in [addrA : 0..MaxArbAddrIn,
                 addrB : ByteSamples(MaxArbSample) \cup ArbDefaults]
    /\ InitLocals

InitSPI ==
    /\ gen = "SPI"
    /\ args \in [dataTx : ByteSamples(MaxSpiByteIn) \cup SPIDefaults,
                 dataRx : ByteSamples(MaxSpiByteIn) \cup SPIDefaults,
                 mode : 0..MaxMode]
    /\ InitLocals

NextUART == UARTStart \/ UARTDataBit \/ UARTStop
NextI2C == I2CStart \/ I2CAddressBit \/ I2CWrite \/ I2CDataBit \/ I2CStop
NextArb == ArbStart \/ ArbAddressBit \/ ArbWriteBit \/ ArbAck \/ ArbStop
NextSPI == SPIStart \/ SPIDataBit \/ SPIEnd
NextI2CBus == NextI2C \/ NextArb

SpecUART == InitUART /\ [][NextUART]_vars
SpecI2C == InitI2C /\ [][NextI2C]_vars
SpecArb == InitArb /\ [][NextArb]_vars
SpecSPI == InitSPI /\ [][NextSPI]_vars
\* both I2C generators, the standard write and the arbitration trace, on
\* a spread of arguments
InitI2CBus ==
    /\ \/ /\ gen = "I2C"
          /\ args \in [address : ByteSamples(MaxBusSample),
                       data : ByteSamples(MaxBusSample)]
       \/ /\ gen = "ARB"
          /\ args \in [addrA : ByteSamples(MaxBusSample),
                       addrB : ByteSamples(MaxBusSample)]
    /\ InitLocals

SpecI2CBus == InitI2CBus /\ [][NextI2CBus]_vars

\* -------------------------------------------------------------------- ADC
\* Voltages and times are exact fractions <<numerator, denominator>> in
\* lowest terms with a positive denominator: the arithmetic of the
\* component without the rounding of its floating-point numbers.
\* A zero denominator stands for the numbers that are no fractions:
\* <<0, 0>> is NaN, <<1, 0>> Infinity and <<0 - 1, 0>> -Infinity, so that
\* x / 0 and 0 / 0 come out as in the code.
\* Each operator takes the value of an argument once (p \in {x}), however
\* often its definition uses it.
Gcd[a \in Nat, b \in Nat] == IF b = 0 THEN a ELSE Gcd[b, a % b]

Abs(n) == IF n < 0 THEN 0 - n ELSE n

Only(S) == CHOOSE r \in S : TRUE

Rat(n, d) ==
    Only({LET g == IF a = 0 /\ b = 0 THEN 1 ELSE Gcd[Abs(a), Abs(b)]
              s == IF b < 0 THEN 0 - 1 ELSE 1
          IN  <<(s * a) \div g, (s * b) \div g>> : a \in {n}, b \in {d}})

RInt(n) == <<n, 1>>
Zero == RInt(0)
RAdd(x, y) ==
    Only({Rat(p[1] * q[2] + q[1] * p[2], p[2] * q[2]) : p \in {x}, q \in {y}})
RSub(x, y) ==
    Only({Rat(p[1] * q[2] - q[1] * p[2], p[2] * q[2]) : p \in {x}, q \in {y}})
RMul(x, y) == Only({Rat(p[1] * q[1], p[2] * q[2]) : p \in {x}, q \in {y}})
RDiv(x, y) == Only({Rat(p[1] * q[2], p[2] * q[1]) : p \in {x}, q \in {y}})
NaN == <<0, 0>>
RGe(x, y) ==
    Only({p # NaN /\ q # NaN /\ p[1] * q[2] >= q[1] * p[2] :
            p \in {x}, q \in {y}})

\* Math.pow(2, n)
Pow2(n) == IF n >= 0 THEN RInt(2 ^ n) ELSE Rat(1, 2 ^ (0 - n))

\* Math.round: the nearest integer, a half rounded up
Round(x) == Only({(2 * p[1] + p[2]) \div (2 * p[2]) : p \in {x}})

\* mutant: the comparator keeps a bit only above the trial voltage
SARIterationStrict(L, v, resolution, vRef, k) ==
    LET bitWeight == RDiv(vRef, RInt(2 ^ (k + 1)))
        trialVal == RAdd(L.currentDacVal, bitWeight)
        kept == RGe(v, trialVal) /\ v # trialVal
        dac == IF kept THEN trialVal ELSE L.currentDacVal
    IN  [steps |-> Append(L.steps,
                     [bitIndex |-> resolution - 1 - k,
                      bitWeight |-> bitWeight,
                      trialVoltage |-> trialVal,
                      decision |-> IF kept THEN 1 ELSE 0,
                      currentApproximation |-> dac]),
         currentDacVal |-> dac]

\* mutant: the first bit weighs the whole reference
SARIterationFullWeight(L, v, resolution, vRef, k) ==
    LET bitWeight == RDiv(vRef, RInt(2 ^ k))
        trialVal == RAdd(L.currentDacVal, bitWeight)
        kept == RGe(v, trialVal)
        dac == IF kept THEN trialVal ELSE L.currentDacVal
    IN  [steps |-> Append(L.steps,
                     [bitIndex |-> resolution - 1 - k,
                      bitWeight |-> bitWeight,
                      trialVoltage |-> trialVal,
                      decision |-> IF kept THEN 1 ELSE 0,
                      currentApproximation |-> dac]),
         currentDacVal |-> dac]

\* lines 19-35, one iteration of the successive-approximation loop on the
\* locals L = [steps, currentDacVal]
SARIteration(L, v, resolution, vRef, k) ==
    LET bitWeight == RDiv(vRef, RInt(2 ^ (k + 1)))
        trialVal == RAdd(L.currentDacVal, bitWeight)
        kept == RGe(v, trialVal)
        dac == IF kept THEN trialVal ELSE L.currentDacVal
    IN  [steps |-> Append(L.steps,
                     [bitIndex |-> resolution - 1 - k,
                      bitWeight |-> bitWeight,
                      trialVoltage |-> trialVal,
                      decision |-> IF kept THEN 1 ELSE 0,
                      currentApproximation |-> dac]),
         currentDacVal |-> dac]

\* line 42
t1 == 100

\* line 43
t2Of(v, vRef) == RMul(RDiv(v, vRef), RInt(t1))

\* line 48
dualSlopeMaxCountOf(resolution) == RSub(Pow2(resolution), One)

\* mutant: the count cut off, not rounded
dualSlopeCountTruncated(v, vRef, resolution) ==
    LET x == RMul(RDiv(t2Of(v, vRef), RInt(t1)),
                  dualSlopeMaxCountOf(resolution))
    IN  x[1] \div x[2]

\* line 49
dualSlopeCountOf(v, vRef, resolution) ==
    Round(RMul(RDiv(t2Of(v, vRef), RInt(t1)),
               dualSlopeMaxCountOf(resolution)))

\* line 54: sarSteps.reduce((acc, step) => acc + (step.decision << step.bitIndex), 0)
RECURSIVE SumDecisions(_)
SumDecisions(ss) ==
    IF ss = <<>> THEN 0
    ELSE SumDecisions(SubSeq(ss, 1, Len(ss) - 1))
         + ss[Len(ss)].decision * 2 ^ ss[Len(ss)].bitIndex

\* lines 42-62: what a render derives from the steps and the props
RenderValues(ss, v, resolution, vRef, mode) ==
    LET dualSlopeMaxCount == dualSlopeMaxCountOf(resolution)
        dualSlopeCount == dualSlopeCountOf(v, vRef, resolution)
        finalVoltage ==
            IF mode = "sar"
              THEN ss[Len(ss)].currentApproximation
              ELSE RMul(RDiv(RInt(dualSlopeCount), dualSlopeMaxCount), vRef)
    IN  [t2 |-> t2Of(v, vRef),
         dualSlopeMaxCount |-> dualSlopeMaxCount,
         dualSlopeCount |-> dualSlopeCount,
         finalDigitalValue |-> IF mode = "sar" THEN SumDecisions(ss)
                                               ELSE dualSlopeCount,
         finalVoltage |-> finalVoltage,
         quantizationError |-> RSub(v, finalVoltage),
         lsbVoltage |-> RDiv(vRef, Pow2(resolution))]

\* lines 15-16
SARStart ==
    /\ gen = "ADC" /\ pc = "ready"
    /\ steps' = <<>>
    /\ currentDacVal' = Zero
    /\ i' = 0
    /\ pc' = "sar_loop"
    /\ UNCHANGED <<uiVars, gen, args, frames, idCounter, masterALost, masterBLost,
                   returned, inputVoltage, adcOut>>

\* lines 19-35
SARStep ==
    /\ gen = "ADC" /\ pc = "sar_loop" /\ i < args.resolution
    /\ LET L == SARIteration([steps |-> steps, currentDacVal |-> currentDacVal],
                             inputVoltage, args.resolution, args.vRef, i)
       IN  /\ steps' = L.steps
           /\ currentDacVal' = L.currentDacVal
    /\ i' = i + 1
    /\ UNCHANGED <<uiVars, gen, args, frames, idCounter, masterALost, masterBLost,
                   returned, inputVoltage, adcOut, pc>>

\* line 36: the loop is over, sarSteps is the list of steps
SARReturn ==
    /\ gen = "ADC" /\ pc = "sar_loop" /\ ~(i < args.resolution)
    /\ pc' = "render"
    /\ UNCHANGED <<uiVars, gen, args, frames, idCounter, masterALost, masterBLost,
                   returned, i, inputVoltage, steps, currentDacVal, adcOut>>

\* lines 42-62: the rest of the render. In SAR mode line 58 reads
\* sarSteps[sarSteps.length - 1].currentApproximation: with no step this is
\* a property of undefined, and the render ends in a TypeError.
Render ==
    /\ gen = "ADC" /\ pc = "render"
    /\ IF args.mode = "sar" /\ steps = <<>>
         THEN /\ pc' = "threw"
              /\ adcOut' = adcOut
         ELSE /\ adcOut' = RenderValues(steps, inputVoltage, args.resolution,
                                        args.vRef, args.mode)
              /\ pc' = "done"
    /\ UNCHANGED <<uiVars, gen, args, frames, idCounter, masterALost, masterBLost,
                   returned, i, inputVoltage, steps, currentDacVal>>

\* line 352: the reference the application passes
dacVRef == Rat(33, 10)

\* reference voltages in tenths of a volt
VRefs == {Rat(k, 10) : k \in 1..MaxVRef} \cup {dacVRef}

\* lines 255-260: the values the range input takes, 0 to vRef in steps of
\* 0.01; line 11: the value before the slider is moved, 1.65
SliderValues(vRef) ==
    {Rat(k, 100) : k \in 0..((100 * vRef[1]) \div vRef[2])}
    \cup {Rat(165, 100)}

InitADC ==
    /\ gen = "ADC"
    /\ args \in [resolution : 1..MaxResolution, vRef : VRefs,
                 mode : {"sar", "dual-slope"}]
    /\ inputVoltage \in SliderValues(args.vRef)
    /\ steps = <<>>
    /\ currentDacVal = Zero
    /\ adcOut = <<>>
    /\ dacOut = <<>>
    /\ app = <<>>
    /\ frames = <<>>
    /\ idCounter = 0
    /\ masterALost = FALSE
    /\ masterBLost = FALSE
    /\ i = 0
    /\ pc = "ready"
    /\ returned = {}

NextADC == SARStart \/ SARStep \/ SARReturn \/ Render

SpecADC == InitADC /\ [][NextADC]_vars

\* the render runs to its end once it has begun
SpecADCFair == SpecADC /\ WF_vars(NextADC)

\* -------------------------------------------------------------------- DAC
\* line 35
height == 350

\* lines 46-47: where the ladder draws the reference rail and the ground rail
railVRefY == height - 70
railGndY == height - 20

\* lines 16-22: the bits of value, most significant first
bitsOf(value, resolution) ==
    [k \in 1..resolution |-> Bit(value, resolution - k)]

\* lines 54-56 and 74-75: the switch of ladder node n
switchOf(value, n) ==
    LET bitValue == Bit(value, n)
        isActive == bitValue = 1
    IN  [bitValue |-> bitValue, isActive |-> isActive,
         targetY |-> IF isActive THEN height - 70 ELSE height - 20]

\* mutant: the step is the reference over the largest code
DACValuesFullScale(resolution, vRef, value) ==
    LET maxVal == RSub(Pow2(resolution), One)
        stepSize == RDiv(vRef, maxVal)
    IN  [maxVal |-> maxVal,
         stepSize |-> stepSize,
         outputVoltage |-> RMul(RInt(value), stepSize),
         bits |-> bitsOf(value, resolution),
         switches |-> [k \in 1..resolution |-> switchOf(value, k - 1)]]

\* lines 11-22 and 50-75: what a render derives from the props
DACValues(resolution, vRef, value) ==
    LET maxVal == RSub(Pow2(resolution), One)
        stepSize == RDiv(vRef, Pow2(resolution))
    IN  [maxVal |-> maxVal,
         stepSize |-> stepSize,
         outputVoltage |-> RMul(RInt(value), stepSize),
         bits |-> bitsOf(value, resolution),
         switches |-> [k \in 1..resolution |-> switchOf(value, k - 1)]]

DACRender ==
    /\ gen = "DAC" /\ pc = "ready"
    /\ dacOut' = DACValues(args.resolution, args.vRef, args.value)
    /\ pc' = "done"
    /\ UNCHANGED <<gen, args, frames, idCounter, masterALost, masterBLost, i,
                   returned, adcVars, app>>

\* lines 24-29: value ^ (1 << bitIndex) goes to onChange, and the component
\* renders again with the new value
toggleBit(bitIndexReverse) ==
    /\ gen = "DAC" /\ pc = "done"
    /\ LET bitIndex == args.resolution - 1 - bitIndexReverse
           mask == 2 ^ bitIndex
           newValue == IF Bit(args.value, bitIndex) = 0
                         THEN args.value + mask
                         ELSE args.value - mask
       IN  args' = [args EXCEPT !.value = newValue]
    /\ pc' = "ready"
    /\ UNCHANGED <<gen, frames, idCounter, masterALost, masterBLost, i,
                   returned, adcVars, uiVars>>

\* codes from below 0 to beyond the largest code of every resolution
DacCodes == {0 - 2, 0 - 1} \cup 0..MaxDacValue

InitDAC ==
    /\ gen = "DAC"
    /\ args \in [resolution : 1..MaxResolution, vRef : VRefs, value : DacCodes]
    /\ InitLocals

\* line 167: one button per entry of bits
NextDAC ==
    \/ DACRender
    \/ /\ gen = "DAC" /\ pc = "done"
       /\ \E idx \in 0..(Len(dacOut.bits) - 1) : toggleBit(idx)

SpecDAC == InitDAC /\ [][NextDAC]_vars

\* ------------------------------------------- resolutions at and below 0
\* ADCVisualizer.tsx line 6 and DACVisualizer.tsx line 6: resolution is any
\* number the caller passes; the resolutions drawn here are the invalid ones
\* and the first valid one
BoundaryResolutions == (0 - MaxInvalidResolution)..1

InitBoundary ==
    /\ \/ /\ gen = "DAC"
          /\ args \in [resolution : BoundaryResolutions, vRef : VRefs,
                       value : DacCodes]
          /\ inputVoltage = 0
          /\ currentDacVal = 0
       \/ /\ gen = "ADC"
          /\ args \in [resolution : BoundaryResolutions, vRef : VRefs,
                       mode : {"sar", "dual-slope"}]
          /\ inputVoltage \in SliderValues(args.vRef)
          /\ currentDacVal = Zero
    /\ steps = <<>>
    /\ adcOut = <<>>
    /\ dacOut = <<>>
    /\ app = <<>>
    /\ frames = <<>>
    /\ idCounter = 0
    /\ masterALost = FALSE
    /\ masterBLost = FALSE
    /\ i = 0
    /\ pc = "ready"
    /\ returned = {}

NextBoundary == NextADC \/ NextDAC

SpecBoundary == InitBoundary /\ [][NextBoundary]_vars

\* ------------------------------------------- the generators, whole calls
\* the loops of the generators run to their end from locals L

\* protocolLogic.ts lines 18-27
RECURSIVE UARTDataLoop(_, _, _)
UARTDataLoop(L, code, n) ==
    IF n < 8
      THEN Only({UARTDataLoop(M, code, n + 1) : M \in {UARTBit(L, code, n)}})
      ELSE L

\* protocolLogic.ts lines 4-36; char is the sequence of its character codes
generateUARTSequence(char) ==
    IF Len(char) = 0
      THEN <<>>
      ELSE UARTTail(UARTDataLoop(UARTHead(FreshLocals), char[1], 0)).frames

RECURSIVE I2CAddrLoop(_, _, _)
I2CAddrLoop(L, address, n) ==
    IF n >= 0
      THEN Only({I2CAddrLoop(M, address, n - 1) :
                   M \in {I2CAddrBit(L, address, n)}})
      ELSE L

RECURSIVE I2CDataLoop(_, _, _)
I2CDataLoop(L, data, n) ==
    IF n >= 0
      THEN Only({I2CDataLoop(M, data, n - 1) :
                   M \in {I2CDataBitFrames(L, data, n)}})
      ELSE L

\* protocolLogic.ts lines 39-90
generateI2CSequence(address, data) ==
    I2CAckStop(I2CDataLoop(
        I2CWriteAck(I2CAddrLoop(I2CHead(FreshLocals), address, 6)),
        data, 7)).frames

RECURSIVE ArbAddrLoop(_, _, _, _)
ArbAddrLoop(L, addrA, addrB, n) ==
    IF n >= 0
      THEN Only({ArbAddrLoop(M, addrA, addrB, n - 1) :
                   M \in {ArbBit(L, addrA, addrB, n)}})
      ELSE L

\* protocolLogic.ts lines 93-191
generateArbitrationSequence(addrA, addrB) ==
    ArbTail(ArbAckFrames(ArbWrite(
        ArbAddrLoop(ArbHead(FreshLocals), addrA, addrB, 6)))).frames

RECURSIVE SPIDataLoop(_, _, _, _, _)
SPIDataLoop(L, dataTx, dataRx, mode, n) ==
    IF n >= 0
      THEN Only({SPIDataLoop(M, dataTx, dataRx, mode, n - 1) :
                   M \in {SPIBit(L, dataTx, dataRx, mode, n)}})
      ELSE L

\* protocolLogic.ts lines 194-251
generateSPISequence(dataTx, dataRx, mode) ==
    SPITail(SPIDataLoop(SPIHead(FreshLocals, mode), dataTx, dataRx, mode, 7),
            mode).frames

\* ------------------------------------------------------------------- App
\* text of an input field: the sequence of its characters
LowerDigits ==
    <<"0", "1", "2", "3", "4", "5", "6", "7", "8", "9",
      "a", "b", "c", "d", "e", "f">>
UpperDigits ==
    <<"0", "1", "2", "3", "4", "5", "6", "7", "8", "9",
      "A", "B", "C", "D", "E", "F">>

IsHexDigit(c) == \E k \in 1..16 : LowerDigits[k] = c \/ UpperDigits[k] = c

DigitValue(c) ==
    (CHOOSE k \in 1..16 : LowerDigits[k] = c \/ UpperDigits[k] = c) - 1

\* the number of leading characters of text that are hexadecimal digits
RECURSIVE DigitPrefix(_)
DigitPrefix(text) ==
    IF Len(text) = 0 \/ ~IsHexDigit(text[1])
      THEN 0
      ELSE 1 + DigitPrefix(Tail(text))

RECURSIVE HexValue(_)
HexValue(text) ==
    IF Len(text) = 0
      THEN 0
      ELSE 16 * HexValue(SubSeq(text, 1, Len(text) - 1))
             + DigitValue(text[Len(text)])

\* parseInt(text, 16) for a text without blank, sign or x: the value of
\* the longest prefix of hexadecimal digits as <<value>>, and NaN, written
\* << >>, when that prefix is empty
parseInt(text) ==
    LET n == DigitPrefix(text)
    IN  IF n = 0 THEN <<>> ELSE <<HexValue(SubSeq(text, 1, n))>>

\* parsed || default: NaN and 0 are falsy
OrElse(parsed, default) ==
    IF parsed = <<>> \/ parsed[1] = 0 THEN default ELSE parsed[1]

\* lines 324-326
INITIAL_UART_CHAR == <<75>>
INITIAL_I2C_ADDR == 66
INITIAL_I2C_DATA == 21

\* string | null: null is the empty set, a string s is {s}
null == {}

\* lines 329-359: the state a freshly mounted App has; inFlight holds the
\* calls of getExplanation that have not settled, oldest first, and edits
\* counts the protocol switches and input changes explored
AppInitial ==
    [protocol |-> "UART", frames |-> <<>>, currentIndex |-> 0 - 1,
     isPlaying |-> FALSE, logs |-> <<>>,
     uartInput |-> INITIAL_UART_CHAR,
     i2cAddr |-> <<"4", "2">>, i2cData |-> <<"1", "5">>,
     i2cMode |-> "standard",
     arbAddrA |-> <<"2", "1">>, arbAddrB |-> <<"2", "5">>,
     spiDataTx |-> <<"F", "0">>, spiDataRx |-> <<"0", "F">>, spiMode |-> 0,
     dacValue |-> 8, adcMode |-> "sar",
     aiThinking |-> FALSE, aiResponse |-> null,
     inFlight |-> <<>>, edits |-> 0]

\* lines 363-371: the new entry first, then the 9 newest of the old ones
\* (id and timestamp, which nothing reads, are left out; a number printed
\* into the message is carried as the number)
addLog(a, source, message, type) ==
    [a EXCEPT !.logs =
        <<[source |-> source, message |-> message, type |-> type]>>
        \o SubSeq(@, 1, IF Len(@) < 9 THEN Len(@) ELSE 9)]

\* lines 422-445: a timeout is armed after every render in which the
\* playback stands on a frame, and cleared by every other render
timerArmed(a) ==
    a.isPlaying /\ a.currentIndex >= 0 /\ a.currentIndex < Len(a.frames)

\* lines 375-381 (clearing the timer follows from isPlaying = false)
resetSimulation(a) ==
    [a EXCEPT !.isPlaying = FALSE, !.currentIndex = 0 - 1,
              !.frames = <<>>, !.aiResponse = null]

\* lines 383-411: the App after the call and the frames it returns
\* (undefined, for UART with an empty field, is returned as no frames)
prepareSimulation(a) ==
    LET r == resetSimulation(a)
        done(b, newFrames) ==
            [app |-> [b EXCEPT !.frames = newFrames], newFrames |-> newFrames]
    IN  CASE a.protocol = "UART" ->
               IF Len(a.uartInput) = 0
                 THEN [app |-> r, newFrames |-> <<>>]
                 ELSE done(addLog(r, "System",
                                  <<"Prepared UART sequence for char",
                                    a.uartInput[1]>>, "info"),
                           generateUARTSequence(SubSeq(a.uartInput, 1, 1)))
          [] a.protocol = "I2C" /\ a.i2cMode = "arbitration" ->
               LET addrA == OrElse(parseInt(a.arbAddrA), 33)
                   addrB == OrElse(parseInt(a.arbAddrB), 37)
               IN  done(addLog(r, "System",
                               <<"Prepared Multi-Master Arbitration",
                                 addrA, addrB>>, "info"),
                        generateArbitrationSequence(addrA, addrB))
          [] a.protocol = "I2C" /\ a.i2cMode # "arbitration" ->
               LET addr == OrElse(parseInt(a.i2cAddr), INITIAL_I2C_ADDR)
                   data == OrElse(parseInt(a.i2cData), INITIAL_I2C_DATA)
               IN  done(addLog(r, "System",
                               <<"Prepared I2C write to", addr>>, "info"),
                        generateI2CSequence(addr, data))
          [] a.protocol = "SPI" ->
               LET tx == OrElse(parseInt(a.spiDataTx), 240)
                   rx == OrElse(parseInt(a.spiDataRx), 15)
               IN  done(addLog(r, "System",
                               <<"Prepared SPI Mode", a.spiMode, tx, rx>>,
                               "info"),
                        generateSPISequence(tx, rx, a.spiMode))
          [] OTHER -> done(r, <<>>)

\* lines 413-420
startSimulationOf(a) ==
    IF a.protocol \in {"DAC", "ADC"}
      THEN a
      ELSE LET p == IF Len(a.frames) > 0
                      THEN [app |-> a, newFrames |-> a.frames]
                      ELSE prepareSimulation(a)
           IN  IF Len(p.newFrames) = 0
                 THEN p.app
                 ELSE [p.app EXCEPT !.isPlaying = TRUE, !.currentIndex = 0]

\* mutant: the callback steps on from the last frame as well
onTimeoutPastEnd(a) ==
    IF a.currentIndex < Len(a.frames)
      THEN [a EXCEPT !.currentIndex = @ + 1]
      ELSE addLog([a EXCEPT !.isPlaying = FALSE], "System",
                  <<"Transmission Complete">>, "success")

\* lines 427-441: the timeout's callback
onTimeout(a) ==
    IF a.currentIndex < Len(a.frames) - 1
      THEN [a EXCEPT !.currentIndex = @ + 1]
      ELSE LET b == [a EXCEPT !.isPlaying = FALSE]
               arbFrame == a.frames[Len(a.frames) - 2]
           IN  IF a.protocol = "I2C" /\ a.i2cMode = "arbitration"
                 THEN IF arbFrame.masterAState = "lost"
                        THEN addLog(b, "System",
                                    <<"Master A Lost Arbitration">>, "error")
                        ELSE IF arbFrame.masterBState = "lost"
                          THEN addLog(b, "System",
                                      <<"Master B Lost Arbitration">>, "error")
                          ELSE addLog(b, "System",
                                      <<"Arbitration Complete">>, "success")
                 ELSE addLog(b, "System",
                             <<"Transmission Complete">>, "success")

\* the variables the App's handlers leave alone
genVars ==
    <<gen, args, frames, idCounter, masterALost, masterBLost, i, pc,
      returned, adcVars, dacOut>>

\* line 626: the Start button, disabled while playing (the handler's own
\* test of the protocol covers DAC and ADC)
startSimulation ==
    /\ gen = "APP"
    /\ ~app.isPlaying
    /\ Len(app.logs) < MaxLogs
    /\ app' = Only({startSimulationOf(a) : a \in {app}})
    /\ UNCHANGED genVars

\* lines 422-445: the armed timeout fires
Tick ==
    /\ gen = "APP"
    /\ timerArmed(app)
    /\ app' = onTimeout(app)
    /\ UNCHANGED genVars

\* line 625: the reset button
Reset ==
    /\ gen = "APP"
    /\ app' = resetSimulation(app)
    /\ UNCHANGED genVars

\* ------------------------------------------------------- App, playback
\* the characters typed into the hexadecimal fields: a digit of value 0, a
\* digit of another value, and a character that is no hexadecimal digit
Keys == {"0", "1", "g"}

\* lines 591-619: maxLength 2
Texts ==
    {<<>>} \cup {<<c>> : c \in Keys} \cup {<<c, d>> : c \in Keys, d \in Keys}

\* the texts a hexadecimal field holds: the one it starts with or a typed one
FieldTexts(field) == {AppInitial[field]} \cup Texts

\* line 575: maxLength 1 (the first character, none, and the character 0)
UartTexts == {INITIAL_UART_CHAR, <<>>, <<48>>}

\* line 485
aiLogged(a) == addLog(a, "AI", <<"Explanation generated">>, "ai")

\* the App after protocol switches and edits of the fields shown for the
\* protocol, before a run
Edited ==
    {[AppInitial EXCEPT !.uartInput = c] : c \in UartTexts}
    \cup {[AppInitial EXCEPT !.protocol = "I2C", !.i2cAddr = x, !.i2cData = y] :
            x \in FieldTexts("i2cAddr"), y \in FieldTexts("i2cData")}
    \cup {[AppInitial EXCEPT !.protocol = "I2C", !.i2cMode = "arbitration",
                             !.arbAddrA = x, !.arbAddrB = y] :
            x \in FieldTexts("arbAddrA"), y \in FieldTexts("arbAddrB")}
    \cup {[AppInitial EXCEPT !.protocol = "SPI", !.spiDataTx = x,
                             !.spiDataRx = y, !.spiMode = m] :
            x \in FieldTexts("spiDataTx"), y \in FieldTexts("spiDataRx"),
            m \in 0..3}
    \cup {[AppInitial EXCEPT !.protocol = p] : p \in {"DAC", "ADC"}}

\* the same with an explanation on display
Explained ==
    {[aiLogged(a) EXCEPT !.aiResponse = {"answer"}] : a \in Edited}

InitAppFrom(S) ==
    /\ gen = "APP"
    /\ args = <<>>
    /\ app \in S
    /\ frames = <<>>
    /\ idCounter = 0
    /\ masterALost = FALSE
    /\ masterBLost = FALSE
    /\ i = 0
    /\ pc = "ready"
    /\ returned = {}
    /\ inputVoltage = 0
    /\ steps = <<>>
    /\ currentDacVal = 0
    /\ adcOut = <<>>
    /\ dacOut = <<>>

InitAppPlay == InitAppFrom(Edited)

NextAppPlay == startSimulation \/ Tick \/ Reset

SpecAppPlay == InitAppPlay /\ [][NextAppPlay]_vars

\* the states of InitAppPlay in which at most one of the hexadecimal fields
\* has been changed
HexFields ==
    {"i2cAddr", "i2cData", "arbAddrA", "arbAddrB", "spiDataTx", "spiDataRx"}

InitAppRun ==
    InitAppFrom({a \in Edited \cup Explained :
                   Cardinality({f \in HexFields : a[f] # AppInitial[f]}) <= 1})

\* the browser runs an armed timeout
SpecAppPlayFair == InitAppRun /\ [][NextAppPlay]_vars /\ WF_vars(Tick)

\* -------------------------------------------------------- App, editing
\* mutant: the protocol is switched and the prepared trace stays
handleProtocolSwitchKeepTrace(a, p) == [a EXCEPT !.protocol = p]

\* lines 489-492
handleProtocolSwitchOf(a, p) == resetSimulation([a EXCEPT !.protocol = p])

\* lines 549-550, 575, 582, 591, 595, 603, 607, 615, 619: every onChange
\* and both mode buttons set their one state and call resetSimulation
changeOf(a, field, value) == resetSimulation([a EXCEPT ![field] = value])

\* lines 546, 571-622: the controls rendered for the protocol and I2C mode
Shown(a) ==
    CASE a.protocol = "UART" -> {"uartInput"}
      [] a.protocol = "SPI" -> {"spiMode", "spiDataTx", "spiDataRx"}
      [] a.protocol = "I2C" /\ a.i2cMode = "standard" ->
           {"i2cMode", "i2cAddr", "i2cData"}
      [] a.protocol = "I2C" /\ a.i2cMode = "arbitration" ->
           {"i2cMode", "arbAddrA", "arbAddrB"}
      [] OTHER -> {}

\* the values a control is set to
Choices(field) ==
    CASE field = "uartInput" -> {<<>>, <<48>>}
      [] field = "spiMode" -> 0..3
      [] field = "i2cMode" -> {"standard", "arbitration"}
      [] OTHER -> {<<"0">>, <<"1", "g">>}

handleProtocolSwitch(p) ==
    /\ gen = "APP"
    /\ app.edits < MaxEdits
    /\ app' = [handleProtocolSwitchOf(app, p) EXCEPT !.edits = @ + 1]
    /\ UNCHANGED genVars

onChange(field, value) ==
    /\ gen = "APP"
    /\ app.edits < MaxEdits
    /\ field \in Shown(app)
    /\ app' = [changeOf(app, field, value) EXCEPT !.edits = @ + 1]
    /\ UNCHANGED genVars

\* the mounted App, and the App switched to another protocol and I2C mode
Switched ==
    {[AppInitial EXCEPT !.protocol = p] :
        p \in {"UART", "I2C", "SPI", "DAC", "ADC"}}
    \cup {[AppInitial EXCEPT !.protocol = "I2C", !.i2cMode = "arbitration"]}

InitAppEdit == InitAppFrom(Switched)

NextAppEdit ==
    \/ \E p \in {"UART", "I2C", "SPI", "DAC", "ADC"} : handleProtocolSwitch(p)
    \/ \E field \in {"uartInput", "spiMode", "spiDataTx", "spiDataRx",
                     "i2cMode", "i2cAddr", "i2cData", "arbAddrA", "arbAddrB"} :
          \E value \in Choices(field) : onChange(field, value)
    \/ startSimulation
    \/ Tick
    \/ Reset

SpecAppEdit == InitAppEdit /\ [][NextAppEdit]_vars

\* ---------------------------------------------------- App, explanations
\* src/unnamed/part_000 line 60 and line 57
FallbackText ==
    "Sorry, I'm having trouble connecting to the knowledge base right now. Please check your API key or try again."
NoAnswerText == "I couldn't generate an explanation at this moment."

\* what the environment does to one call: whether process.env.API_KEY is
\* set, whether generateContent rejects, and the text of its response
Services ==
    {[apiKey |-> FALSE, rejects |-> FALSE, text |-> "answer"],
     [apiKey |-> TRUE, rejects |-> TRUE, text |-> "answer"],
     [apiKey |-> TRUE, rejects |-> FALSE, text |-> ""],
     [apiKey |-> TRUE, rejects |-> FALSE, text |-> "answer"]}

\* part_000 lines 4-10: throws without a key
getClient(service) == [threw |-> ~service.apiKey]

\* part_000 lines 14-57: the body of the try block
tryBlock(service) ==
    IF getClient(service).threw \/ service.rejects
      THEN [threw |-> TRUE, value |-> ""]
      ELSE [threw |-> FALSE,
            value |-> IF service.text = "" THEN NoAnswerText
                                            ELSE service.text]

\* mutant: without the catch
getExplanationUncaught(service) == tryBlock(service)

\* part_000 lines 12-62: how the returned promise settles
getExplanation(service) ==
    IF tryBlock(service).threw
      THEN [threw |-> FALSE, value |-> FallbackText]
      ELSE tryBlock(service)

\* lines 454-480: the values printed into the context
contextOf(a) ==
    CASE a.protocol = "SPI" -> <<"SPI", a.spiMode, a.spiDataTx, a.spiDataRx>>
      [] a.protocol = "UART" -> <<"UART", a.uartInput>>
      [] a.protocol = "I2C" /\ a.i2cMode = "arbitration" ->
           <<"I2C arbitration", parseInt(a.arbAddrA), parseInt(a.arbAddrB)>>
      [] a.protocol = "I2C" /\ a.i2cMode # "arbitration" ->
           <<"I2C", a.i2cAddr, a.i2cData>>
      [] a.protocol = "DAC" -> <<"DAC", a.dacValue>>
      [] OTHER -> <<"ADC", a.adcMode>>

\* lines 449-482: askAI up to its await
askAIOf(a, customQuestion, service) ==
    [a EXCEPT !.aiThinking = TRUE,
              !.aiResponse = null,
              !.inFlight = Append(@, [protocol |-> a.protocol,
                                      context |-> contextOf(a),
                                      userQuestion |-> customQuestion,
                                      service |-> service])]

\* s without its k-th element
Without(s, k) == SubSeq(s, 1, k - 1) \o SubSeq(s, k + 1, Len(s))

\* lines 482-485: askAI from its await on, for the k-th call in flight; a
\* rejected promise would end askAI at the await
resume(a, k) ==
    LET rest == [a EXCEPT !.inFlight = Without(@, k)]
        response == getExplanation(a.inFlight[k].service)
    IN  IF response.threw
          THEN rest
          ELSE aiLogged([rest EXCEPT !.aiResponse = {response.value},
                                     !.aiThinking = FALSE])

\* lines 643-651: a question button, shown while there is neither an
\* explanation nor a call in progress
askAIButton ==
    /\ gen = "APP"
    /\ app.aiResponse = null /\ ~app.aiThinking
    /\ Len(app.logs) + Len(app.inFlight) < MaxLogs
    /\ \E service \in Services :
          app' = askAIOf(app, "Explain this protocol.", service)
    /\ UNCHANGED genVars

\* line 656: Enter in the question field, which is never disabled
askAITyped ==
    /\ gen = "APP"
    /\ Len(app.logs) + Len(app.inFlight) < MaxLogs
    /\ \E service \in Services : app' = askAIOf(app, "Why?", service)
    /\ UNCHANGED genVars

\* a call of getExplanation settles and askAI goes on
Settle ==
    /\ gen = "APP"
    /\ \E k \in 1..Len(app.inFlight) : app' = resume(app, k)
    /\ UNCHANGED genVars

InitAppAI == InitAppFrom({AppInitial})

NextAppAI ==
    askAIButton \/ askAITyped \/ Settle \/ startSimulation \/ Tick \/ Reset

SpecAppAI == InitAppAI /\ [][NextAppAI]_vars

\* ------------------------------------------------ reading a trace back
\* positions of the frames carrying a given label and tag
Slot(label, type) ==
    {k \in 1..Len(frames) : frames[k].label = label /\ frames[k].type = type}

\* sum of v[n] * 2^n for n in 0..top
RECURSIVE Weigh(_, _)
Weigh(v, top) == IF top < 0 THEN 0 ELSE v[top] * (2 ^ top) + Weigh(v, top - 1)

\* ---------------------------------------------------------------- C1
\* C1: for a character code c in 0..255 the finished UART trace has exactly
\* 12 frames of duration 1: idle high, start low, eight data frames whose
\* levels read least significant bit first give back c, stop high, idle high.
C1_UARTFrame ==
    (gen = "UART" /\ pc = "done" /\ Len(args.char) > 0
       /\ args.char[1] \in 0..255) =>
        /\ Len(frames) = 12
        /\ \A k \in 1..12 : frames[k].duration = One
        /\ frames[1].type = "idle" /\ frames[1].level = 1
        /\ frames[2].type = "start" /\ frames[2].level = 0
        /\ \A n \in 0..7 :
              frames[3 + n].type = "data" /\ frames[3 + n].level \in {0, 1}
        /\ Weigh([n \in 0..7 |-> frames[3 + n].level], 7) = args.char[1]
        /\ frames[11].type = "stop" /\ frames[11].level = 1
        /\ frames[12].type = "idle" /\ frames[12].level = 1

\* the trace of 'K' (0x4B) is complete and its first data bit is 1
C1_Witness ==
    /\ gen = "UART" /\ pc = "done"
    /\ args.char = <<75>>
    /\ Len(frames) = 12
    /\ frames[3].level = 1 /\ frames[5].level = 0

\* ---------------------------------------------------------------- C2
\* the single SDA level of a bit slot, 2 when its frames disagree or are absent
SlotLevel(label, type) ==
    LET lv == {frames[k].sda : k \in Slot(label, type)}
    IN  IF Cardinality(lv) = 1 THEN CHOOSE x \in lv : TRUE ELSE 2

\* positions where a run of acknowledge frames begins
AckStarts ==
    {k \in 1..Len(frames) :
        frames[k].type = "ack" /\ (k = 1 \/ frames[k - 1].type # "ack")}

\* C2: for a 7-bit address a and a byte d the finished I2C trace carries a
\* in the address slots A6..A0 and d in the data slots D7..D0 (most
\* significant slot first), a write bit of 0 after A0, and exactly two
\* acknowledge phases, one after the write bit and one after D0, with SDA 0
\* in every frame of both.
C2_I2CRoundTrip ==
    (gen = "I2C" /\ pc = "done" /\ args.address \in 0..127
       /\ args.data \in 0..255) =>
        LET aBit == [n \in 0..6 |-> SlotLevel("A" \o DigitStr(n), "address")]
            dBit == [n \in 0..7 |-> SlotLevel("D" \o DigitStr(n), "data")]
            first(label, type) ==
                CHOOSE k \in Slot(label, type) :
                    \A m \in Slot(label, type) : k <= m
            last(label, type) ==
                CHOOSE k \in Slot(label, type) :
                    \A m \in Slot(label, type) : m <= k
        IN  /\ \A n \in 0..6 : aBit[n] \in {0, 1}
            /\ \A n \in 0..7 : dBit[n] \in {0, 1}
            /\ Weigh(aBit, 6) = args.address
            /\ Weigh(dBit, 7) = args.data
            \* most significant slot first
            /\ \A n \in 1..6 :
                  last("A" \o DigitStr(n), "address")
                      < first("A" \o DigitStr(n - 1), "address")
            /\ \A n \in 1..7 :
                  last("D" \o DigitStr(n), "data")
                      < first("D" \o DigitStr(n - 1), "data")
            \* the write bit follows A0 and is 0
            /\ SlotLevel("W", "address") = 0
            /\ first("W", "address") = last("A0", "address") + 1
            \* two acknowledge phases, after W and after D0, SDA low
            /\ AckStarts = {last("W", "address") + 1, last("D0", "data") + 1}
            /\ Cardinality(AckStarts) = 2
            /\ first("D7", "data") > last("W", "address") + 1
            /\ \A k \in 1..Len(frames) :
                  frames[k].type = "ack" => frames[k].sda = 0

\* the default write of 0x15 to 0x42 is complete: A6 is 1, A5 is 0, D4 is 1
C2_Witness ==
    /\ gen = "I2C" /\ pc = "done"
    /\ args.address = 66 /\ args.data = 21
    /\ SlotLevel("A6", "address") = 1 /\ SlotLevel("A5", "address") = 0
    /\ SlotLevel("D4", "data") = 1
    /\ Cardinality(AckStarts) = 2

\* ---------------------------------------------------------- C3 .. C7
\* positions of the frames carrying a given label
Labelled(label) == {k \in 1..Len(frames) : frames[k].label = label}

\* the address bit positions at which the two masters differ
DiffBits == {n \in 0..6 : Bit(args.addrA, n) # Bit(args.addrB, n)}

\* the most significant of them: the bit at which arbitration is decided
LossBit == CHOOSE n \in DiffBits : \A m \in DiffBits : m <= n

FirstLabelled(label) ==
    CHOOSE k \in Labelled(label) : \A m \in Labelled(label) : k <= m

\* C3: when the low 7 bits of the two addresses differ, with k the most
\* significant differing bit, both masters are active in every frame before
\* the first frame labelled Ak, and from that frame to the end of the trace
\* the master whose bit k is 1 is lost and the other is active; on a bit
\* where both masters propose the same value the master states stay as they
\* were in the frame before that bit.
C3_ExactlyOneLoser ==
    (gen = "ARB" /\ pc = "done") =>
        /\ DiffBits # {} =>
              LET k == LossBit
                  aLoses == Bit(args.addrA, k) = 1
                  f == FirstLabelled("A" \o DigitStr(k))
              IN  /\ Labelled("A" \o DigitStr(k)) # {}
                  /\ \A j \in 1..(f - 1) :
                        /\ frames[j].masterAState = "active"
                        /\ frames[j].masterBState = "active"
                  /\ \A j \in f..Len(frames) :
                        /\ frames[j].masterAState =
                              IF aLoses THEN "lost" ELSE "active"
                        /\ frames[j].masterBState =
                              IF aLoses THEN "active" ELSE "lost"
        /\ \A n \in 0..6 :
              Bit(args.addrA, n) = Bit(args.addrB, n) =>
                  /\ Labelled("A" \o DigitStr(n)) # {}
                  /\ \A j \in Labelled("A" \o DigitStr(n)) :
                        LET before ==
                              frames[FirstLabelled("A" \o DigitStr(n)) - 1]
                        IN  /\ frames[j].masterAState = before.masterAState
                            /\ frames[j].masterBState = before.masterBState

\* Arbitration(0x21, 0x25): master B is lost from bit 2 on, master A never
C3_Witness ==
    /\ gen = "ARB" /\ pc = "done"
    /\ args = [addrA |-> 33, addrB |-> 37]
    /\ LossBit = 2
    /\ frames[FirstLabelled("A2")].masterBState = "lost"
    /\ frames[FirstLabelled("A2") - 1].masterBState = "active"
    /\ frames[Len(frames)].masterBState = "lost"
    /\ frames[Len(frames)].masterAState = "active"

\* C4: in every frame of an arbitration trace not tagged ack the bus SDA is
\* the AND of the two recorded drive levels; in the frames tagged ack both
\* recorded drive levels are 1 and the bus SDA is 0.
C4_WiredAnd ==
    gen = "ARB" =>
        \A k \in 1..Len(frames) :
            IF frames[k].type = "ack"
              THEN frames[k].sdaA = 1 /\ frames[k].sdaB = 1 /\ frames[k].sda = 0
              ELSE frames[k].sda =
                     (IF frames[k].sdaA = 1 /\ frames[k].sdaB = 1 THEN 1 ELSE 0)

\* a finished trace with an acknowledge frame and a frame in which one
\* master drives 0 against the other's 1
C4_Witness ==
    /\ gen = "ARB" /\ pc = "done"
    /\ \E k \in 1..Len(frames) : frames[k].type = "ack"
    /\ \E k \in 1..Len(frames) :
          /\ frames[k].type = "address"
          /\ frames[k].sdaA = 0 /\ frames[k].sdaB = 1 /\ frames[k].sda = 0

\* C5: once a frame tags a master as lost, every later frame of the trace
\* tags that master as lost and records its drive level as 1.
C5_LostIsPermanent ==
    gen = "ARB" =>
        \A j \in 1..Len(frames) : \A k \in (j + 1)..Len(frames) :
            /\ frames[j].masterAState = "lost" =>
                  frames[k].masterAState = "lost" /\ frames[k].sdaA = 1
            /\ frames[j].masterBState = "lost" =>
                  frames[k].masterBState = "lost" /\ frames[k].sdaB = 1

\* master A (0x40) loses the first bit to 0x25 and is still lost, with a
\* released line, in the write, acknowledge and stop frames, although every
\* later bit of its own address is 0
C5_Witness ==
    /\ gen = "ARB" /\ pc = "done"
    /\ args = [addrA |-> 64, addrB |-> 37]
    /\ frames[4].masterAState = "lost"
    /\ \A k \in 5..Len(frames) :
          frames[k].masterAState = "lost" /\ frames[k].sdaA = 1
    /\ \E k \in 5..Len(frames) : frames[k].type = "ack"
    /\ frames[Len(frames)].type = "stop"

\* C6: when the low 7 bits of the two addresses are identical, every frame
\* tags both masters active, and the trace ends with the three write-bit
\* frames, the three acknowledge frames and the three stop frames.
C6_TieBothActive ==
    (gen = "ARB" /\ pc = "done"
       /\ args.addrA % 128 = args.addrB % 128) =>
        /\ \A k \in 1..Len(frames) :
              /\ frames[k].masterAState = "active"
              /\ frames[k].masterBState = "active"
        /\ Len(frames) >= 9
        /\ [k \in 1..9 |-> frames[Len(frames) - 9 + k].label]
             = <<"W", "W", "W", "ACK", "ACK", "ACK", "Stop", "Stop", "Stop">>
        /\ [k \in 1..9 |-> frames[Len(frames) - 9 + k].type]
             = <<"address", "address", "address", "ack", "ack", "ack",
                 "stop", "stop", "stop">>

\* Arbitration(0x21, 0x21) has run to its stop frame with nobody lost
C6_Witness ==
    /\ gen = "ARB" /\ pc = "done"
    /\ args = [addrA |-> 33, addrB |-> 33]
    /\ ~masterALost /\ ~masterBLost
    /\ frames[Len(frames)].label = "Stop"
    /\ frames[Len(frames)].masterAState = "active"
    /\ frames[Len(frames)].masterBState = "active"

\* C7: in the three frames of the bit at which the loss is detected both
\* masters' recorded drive levels are their own address bits (loser 1,
\* winner 0) and the bus SDA is 0; in the address bits before it both record
\* their own bits; in the address bits after it the loser records 1 whatever
\* its own bit is and the winner records its own bit.
C7_ReleaseFromNextBit ==
    (gen = "ARB" /\ pc = "done" /\ DiffBits # {}) =>
        LET k == LossBit
            aLoses == Bit(args.addrA, k) = 1
            at(n) == Labelled("A" \o DigitStr(n))
        IN  /\ Cardinality(at(k)) = 3
            /\ \A j \in at(k) :
                  /\ frames[j].sdaA = Bit(args.addrA, k)
                  /\ frames[j].sdaB = Bit(args.addrB, k)
                  /\ frames[j].sdaA = (IF aLoses THEN 1 ELSE 0)
                  /\ frames[j].sdaB = (IF aLoses THEN 0 ELSE 1)
                  /\ frames[j].sda = 0
            /\ \A n \in (k + 1)..6 : \A j \in at(n) :
                  /\ frames[j].sdaA = Bit(args.addrA, n)
                  /\ frames[j].sdaB = Bit(args.addrB, n)
            /\ \A n \in 0..(k - 1) :
                  /\ at(n) # {}
                  /\ \A j \in at(n) :
                        /\ frames[j].sdaA =
                              IF aLoses THEN 1 ELSE Bit(args.addrA, n)
                        /\ frames[j].sdaB =
                              IF aLoses THEN Bit(args.addrB, n) ELSE 1

\* Arbitration(0x21, 0x25): B drives its own 1 in bit 2, where it loses,
\* and records 1 in bit 1 although its own bit 1 is 0
C7_Witness ==
    /\ gen = "ARB" /\ pc = "done"
    /\ args = [addrA |-> 33, addrB |-> 37]
    /\ \A j \in Labelled("A2") :
          frames[j].sdaB = 1 /\ frames[j].sdaA = 0 /\ frames[j].sda = 0
    /\ Bit(args.addrB, 1) = 0
    /\ \A j \in Labelled("A1") : frames[j].sdaB = 1
    /\ Cardinality(Labelled("A1")) = 3

\* ---------------------------------------------------------- C8, C9
\* SCK goes from level a to level b between frames k and k + 1
SckStep(k, a, b) == frames[k].sck = a /\ frames[k + 1].sck = b

\* for a mode in 0..3: the level SCK leaves and the level it reaches on the
\* sampling edge (idle to active for CPHA = 0, active to idle for CPHA = 1)
SampleFrom == IF args.mode % 2 = 0 THEN args.mode \div 2
                                   ELSE 1 - (args.mode \div 2)
SampleTo == 1 - SampleFrom

\* the sampling edges with chip-select low, as positions of the frame
\* before the edge
SampleEdges ==
    {k \in 1..(Len(frames) - 1) :
        /\ frames[k].cs = 0 /\ frames[k + 1].cs = 0
        /\ SckStep(k, SampleFrom, SampleTo)}

\* the r-th sampling edge, counted from 0
NthEdge(r) ==
    CHOOSE e \in SampleEdges : Cardinality({x \in SampleEdges : x < e}) = r

\* C8: for a mode in 0..3 and bytes tx, rx the finished SPI trace has exactly
\* 8 sampling edges with chip-select low, and the MOSI and MISO levels at
\* those edges, first edge most significant, give back tx and rx.
C8_SPIRoundTrip ==
    (gen = "SPI" /\ pc = "done" /\ args.mode \in 0..3
       /\ args.dataTx \in 0..255 /\ args.dataRx \in 0..255) =>
        /\ Cardinality(SampleEdges) = 8
        /\ Weigh([n \in 0..7 |-> frames[NthEdge(7 - n) + 1].mosi], 7)
             = args.dataTx
        /\ Weigh([n \in 0..7 |-> frames[NthEdge(7 - n) + 1].miso], 7)
             = args.dataRx

\* the default exchange 0xF0 / 0x0F in mode 3 is complete, and its first
\* sampled bits are 1 on MOSI and 0 on MISO
C8_Witness ==
    /\ gen = "SPI" /\ pc = "done"
    /\ args = [dataTx |-> 240, dataRx |-> 15, mode |-> 3]
    /\ Cardinality(SampleEdges) = 8
    /\ frames[NthEdge(0) + 1].mosi = 1 /\ frames[NthEdge(0) + 1].miso = 0
    /\ frames[NthEdge(7) + 1].mosi = 0 /\ frames[NthEdge(7) + 1].miso = 1

\* MOSI or MISO differs between frames k and k + 1
DataChanges(k) ==
    \/ frames[k].mosi # frames[k + 1].mosi
    \/ frames[k].miso # frames[k + 1].miso

\* C9: in an SPI trace of a mode in 0..3, MOSI and MISO are the same before
\* and after every sampling transition of SCK, and they differ between two
\* consecutive frames only where SCK is unchanged or makes the non-sampling
\* transition.
C9_StableAtSampling ==
    (gen = "SPI" /\ args.mode \in 0..3) =>
        \A k \in 1..(Len(frames) - 1) :
            /\ SckStep(k, SampleFrom, SampleTo) => ~DataChanges(k)
            /\ DataChanges(k) =>
                  \/ frames[k].sck = frames[k + 1].sck
                  \/ SckStep(k, SampleTo, SampleFrom)

\* a finished mode 1 trace in which data changes on the idle-to-active
\* transition and is sampled, unchanged, on the way back
C9_Witness ==
    /\ gen = "SPI" /\ pc = "done" /\ args.mode = 1
    /\ \E k \in 1..(Len(frames) - 1) :
          DataChanges(k) /\ SckStep(k, 0, 1)
    /\ \E k \in 1..(Len(frames) - 1) :
          SckStep(k, 1, 0) /\ frames[k].cs = 0 /\ ~DataChanges(k)

\* ---------------------------------------------------------------- C10
\* SDA differs between frames k and k + 1
SdaChanges(k) == frames[k].sda # frames[k + 1].sda

\* C10: in a finished I2C trace of either generator, SDA changes between two
\* frames that both have SCL = 1 at exactly two places, the 1 to 0 fall from
\* the initial idle frame to the start frame and the 0 to 1 rise into the
\* final stop frame; every other change of SDA lies between two frames that
\* both have SCL = 0.
C10_SdaStableWhileSclHigh ==
    (gen \in {"I2C", "ARB"} /\ pc = "done") =>
        LET n == Len(frames)
            high == {k \in 1..(n - 1) :
                        /\ SdaChanges(k)
                        /\ frames[k].scl = 1 /\ frames[k + 1].scl = 1}
        IN  /\ n >= 4
            /\ high = {1, n - 1}
            /\ frames[1].type = "idle" /\ frames[1].sda = 1
            /\ frames[2].type = "start" /\ frames[2].sda = 0
            /\ frames[n - 1].sda = 0
            /\ frames[n].type = "stop" /\ frames[n].sda = 1
            /\ \A k \in 1..(n - 1) :
                  (SdaChanges(k) /\ k \notin high) =>
                      frames[k].scl = 0 /\ frames[k + 1].scl = 0

\* a finished arbitration trace with a loser, whose bus SDA changes between
\* two clock-low frames
C10_Witness ==
    /\ gen = "ARB" /\ pc = "done" /\ (masterALost \/ masterBLost)
    /\ \E k \in 1..(Len(frames) - 1) :
          SdaChanges(k) /\ frames[k].scl = 0 /\ frames[k + 1].scl = 0
    /\ SdaChanges(1) /\ SdaChanges(Len(frames) - 1)

\* ---------------------------------------------------------------- C11
\* the labels of the 16 bit slots of a standard I2C write
BitSlotLabels ==
    {"A" \o DigitStr(n) : n \in 0..6} \cup {"W"}
        \cup {"D" \o DigitStr(n) : n \in 0..7}

\* C11: in a finished trace of generateI2CSequence each address bit, the
\* write bit and each data bit is exactly three consecutive frames of
\* duration 0.5 with SCL 0, 1, 0 in that order and the same SDA in all three.
C11_ThreeFrameSlots ==
    (gen = "I2C" /\ pc = "done") =>
        \A lab \in BitSlotLabels :
            /\ Labelled(lab) # {}
            /\ LET f == FirstLabelled(lab)
               IN  /\ Labelled(lab) = {f, f + 1, f + 2}
                   /\ \A k \in {f, f + 1, f + 2} : frames[k].duration = Half
                   /\ <<frames[f].scl, frames[f + 1].scl, frames[f + 2].scl>>
                        = <<0, 1, 0>>
                   /\ frames[f + 1].sda = frames[f].sda
                   /\ frames[f + 2].sda = frames[f].sda

\* the default write is complete; its slot D4 is frames 40..42 carrying 1
C11_Witness ==
    /\ gen = "I2C" /\ pc = "done"
    /\ args.address = 66 /\ args.data = 21
    /\ Labelled("D4") = {40, 41, 42}
    /\ frames[41].scl = 1 /\ frames[41].sda = 1
    /\ Cardinality(Labelled("W")) = 3

\* ---------------------------------------------------------------- C12
\* C12 as stated: a finished trace of generateI2CSequence begins with a
\* frame tagged idle and, after the stop condition in which SDA rises while
\* SCL is high, ends with a frame tagged idle.
C12_EndsTaggedIdle ==
    (gen = "I2C" /\ pc = "done") =>
        /\ frames[1].type = "idle"
        /\ frames[Len(frames)].type = "idle"
        /\ \E k \in 1..(Len(frames) - 1) :
              /\ frames[k].type = "stop" /\ frames[k + 1].type = "stop"
              /\ frames[k].scl = 1 /\ frames[k + 1].scl = 1
              /\ frames[k].sda = 0 /\ frames[k + 1].sda = 1

\* C12 amended: a finished trace of generateI2CSequence begins with a frame
\* tagged idle and ends with the stop condition itself: the last two frames
\* are tagged stop, SCL is 1 in both and SDA rises from 0 to 1, so the last
\* frame has the idle line levels but the tag stop; the first frame is the
\* only frame tagged idle.
C12_EndsWithStopFrame ==
    (gen = "I2C" /\ pc = "done") =>
        LET n == Len(frames)
        IN  /\ n >= 3
            /\ frames[1].type = "idle"
            /\ frames[n - 1].type = "stop" /\ frames[n].type = "stop"
            /\ frames[n - 1].scl = 1 /\ frames[n].scl = 1
            /\ frames[n - 1].sda = 0 /\ frames[n].sda = 1
            /\ \A k \in 2..n : frames[k].type # "idle"

\* the default write has returned its 60 frames, the last one tagged stop
\* with both lines high
C12_Witness ==
    /\ gen = "I2C" /\ pc = "done"
    /\ args.address = 66 /\ args.data = 21
    /\ Len(frames) = 60
    /\ frames[60].type = "stop" /\ frames[60].label = "Stop"
    /\ frames[60].sda = 1 /\ frames[60].scl = 1

\* ---------------------------------------------------------------- C13
\* all four generators, on a spread of arguments
InitAll ==
    \/ InitUART
    \/ InitI2CBus
    \/ /\ gen = "SPI"
       /\ args \in [dataTx : ByteSamples(MaxGenSample),
                    dataRx : ByteSamples(MaxGenSample), mode : 0..MaxMode]
       /\ InitLocals

NextAll == NextUART \/ NextI2C \/ NextArb \/ NextSPI

SpecAll == InitAll /\ [][NextAll]_vars

\* the frame f shows the quiescent lines of the running generator's protocol
Quiescent(f) ==
    CASE gen = "UART" -> f.level = 1
      [] gen \in {"I2C", "ARB"} -> f.sda = 1 /\ f.scl = 1
      [] gen = "SPI" -> f.cs = 1 /\ f.sck = (args.mode \div 2) % 2

\* C13 as stated: every returned trace has a first and a last frame, both
\* showing the quiescent lines. The empty string makes generateUARTSequence
\* return a trace with no frame at all (line 5).
C13_EveryTraceQuiescent ==
    (pc = "done") =>
        /\ Len(frames) >= 1
        /\ Quiescent(frames[1])
        /\ Quiescent(frames[Len(frames)])

\* C13: the trace a generator returns for a non-empty character, an address
\* pair or a byte pair is not empty, and its first and its last frame show
\* the quiescent lines: UART level 1; I2C sda 1 and scl 1; SPI cs 1 with sck
\* at the idle level CPOL; the trace for the empty string has no frame.
C13_QuiescentEnds ==
    /\ (pc = "done" /\ gen = "UART" /\ Len(args.char) = 0) => frames = <<>>
    /\ (pc = "done" /\ (gen = "UART" => Len(args.char) > 0)) =>
            /\ Len(frames) >= 1
            /\ Quiescent(frames[1])
            /\ Quiescent(frames[Len(frames)])

\* a finished SPI trace of mode 2 (idle-high clock): sck is 1 and
\* chip-select inactive in the first and in the last frame
C13_Witness ==
    /\ gen = "SPI" /\ pc = "done" /\ args.mode = 2
    /\ frames[1].sck = 1 /\ frames[1].cs = 1
    /\ frames[Len(frames)].sck = 1 /\ frames[Len(frames)].cs = 1
    /\ Len(frames) = 20

\* ---------------------------------------------------------------- C14
\* generator calls one after the other: in-range arguments (the
\* application's defaults), arguments congruent to them beyond the bit
\* width the generator reads, and arguments that differ from them within it
CallInputs ==
    {[gen |-> "UART", args |-> [char |-> <<c>>]] : c \in {75, 331, 74}}
    \cup {[gen |-> "I2C", args |-> a] :
            a \in {[address |-> 66, data |-> 21], [address |-> 194, data |-> 277],
                   [address |-> 67, data |-> 149]}}
    \cup {[gen |-> "ARB", args |-> a] :
            a \in {[addrA |-> 33, addrB |-> 37], [addrA |-> 161, addrB |-> 165],
                   [addrA |-> 37, addrB |-> 33]}}
    \cup {[gen |-> "SPI", args |-> a] :
            a \in {[dataTx |-> 240, dataRx |-> 15, mode |-> 1],
                   [dataTx |-> 496, dataRx |-> 271, mode |-> 5],
                   [dataTx |-> 240, dataRx |-> 15, mode |-> 3]}}

InitCalls ==
    /\ \E c \in CallInputs : gen = c.gen /\ args = c.args
    /\ InitLocals

\* the generator returns its frames, and the caller calls a generator again
NextCall ==
    /\ pc = "done"
    /\ Cardinality(returned) < MaxCalls
    /\ returned' = returned \cup
                     {[gen |-> gen, args |-> args, frames |-> frames]}
    /\ \E c \in CallInputs : gen' = c.gen /\ args' = c.args
    /\ pc' = "ready"
    /\ UNCHANGED <<uiVars, frames, idCounter, masterALost, masterBLost, i, adcVars>>

NextCalls == NextAll \/ NextCall

SpecCalls == InitCalls /\ [][NextCalls]_vars

\* the traces returned so far, the one of a call that has just finished
\* included
Results ==
    returned \cup (IF pc = "done"
                     THEN {[gen |-> gen, args |-> args, frames |-> frames]}
                     ELSE {})

IdsArePositions(fs) == \A k \in 1..Len(fs) : fs[k].id = k - 1

\* C14: in every trace, returned or under construction, the frame at
\* position k (counted from 0) has id k, whatever calls came before: the
\* counter starts at 0 in every call, and the arbitration acknowledge
\* frames, pushed without addFrame, take their ids from the same counter.
C14_IdsArePositions ==
    /\ IdsArePositions(frames)
    /\ \A r \in returned : IdsArePositions(r.frames)

\* an I2C write has finished after an arbitration trace was returned: its
\* ids run from 0 to 59, and the acknowledge frames of the arbitration
\* trace carry ids 27..29
C14_Witness ==
    /\ gen = "I2C" /\ pc = "done"
    /\ Len(frames) = 60 /\ frames[1].id = 0 /\ frames[60].id = 59
    /\ \E r \in returned :
          /\ r.gen = "ARB"
          /\ {k \in 1..Len(r.frames) : r.frames[k].type = "ack"} = {28, 29, 30}
          /\ r.frames[28].id = 27

\* ---------------------------------------------------------------- C15
\* positions k where chip-select differs between frame k and frame k + 1
CsChanges == {k \in 1..(Len(frames) - 1) : frames[k].cs # frames[k + 1].cs}

\* C15: in a finished SPI trace chip-select changes only between two frames
\* that both have SCK at the idle level CPOL. With CPHA = 0 the last data
\* frame (18th) leaves SCK active, one more frame brings it back to idle with
\* chip-select still low, and chip-select rises in the 20th and last frame.
\* With CPHA = 1 the last data frame leaves SCK idle and chip-select rises
\* in the 19th and last frame.
C15_CsChangesAtIdleClock ==
    (gen = "SPI" /\ pc = "done") =>
        LET cpol == (args.mode \div 2) % 2
            cpha == args.mode % 2
        IN  /\ \A k \in CsChanges :
                  frames[k].sck = cpol /\ frames[k + 1].sck = cpol
            /\ CsChanges = {1, Len(frames) - 1}
            /\ frames[18].label = "D0"
            /\ cpha = 0 =>
                  /\ Len(frames) = 20
                  /\ frames[18].sck = 1 - cpol
                  /\ frames[19].sck = cpol /\ frames[19].cs = 0
                  /\ frames[19].label = ""
            /\ cpha = 1 =>
                  /\ Len(frames) = 19
                  /\ frames[18].sck = cpol

\* a finished mode-0 trace of 20 frames whose 18th frame has the clock high
\* and whose 19th has it low again, and chip-select rising after it
C15_Witness ==
    /\ gen = "SPI" /\ pc = "done" /\ args.mode = 0
    /\ Len(frames) = 20
    /\ frames[18].sck = 1 /\ frames[19].sck = 0
    /\ frames[19].cs = 0 /\ frames[20].cs = 1

\* ---------------------------------------------------------------- C16
\* C16: two calls of the same generator with the same arguments return the
\* same sequence of frames (same length, every field of every frame equal),
\* whatever calls were made between them.
C16_SameInputsSameTrace ==
    \A r, s \in Results :
        (r.gen = s.gen /\ r.args = s.args) => r.frames = s.frames

\* an arbitration call has finished whose arguments were used by an earlier
\* call, a call of another generator was made as well, and the new trace is
\* the one returned before
C16_Witness ==
    /\ gen = "ARB" /\ pc = "done" /\ masterBLost
    /\ \E r \in returned :
          r.gen = "ARB" /\ r.args = args /\ r.frames = frames
    /\ \E r \in returned : r.gen = "SPI"

\* ---------------------------------------------------------------- C17
\* the arguments reduced to the widths the claim names: character code and
\* data bytes modulo 256, addresses modulo 128, SPI mode modulo 4
Masked(g, a) ==
    CASE g = "UART" ->
           [char |-> IF a.char = <<>> THEN <<>> ELSE <<a.char[1] % 256>>]
      [] g = "I2C" -> [address |-> a.address % 128, data |-> a.data % 256]
      [] g = "ARB" -> [addrA |-> a.addrA % 128, addrB |-> a.addrB % 128]
      [] g = "SPI" -> [dataTx |-> a.dataTx % 256, dataRx |-> a.dataRx % 256,
                       mode |-> a.mode % 4]

\* C17: a generator returns a trace for arguments beyond its bit widths, and
\* the trace is the one it returns for the masked arguments: two calls of one
\* generator whose arguments agree after masking return equal traces.
C17_MaskedInputsSameTrace ==
    \A r, s \in Results :
        (r.gen = s.gen /\ Masked(r.gen, r.args) = Masked(s.gen, s.args)) =>
            r.frames = s.frames /\ Len(r.frames) > 0

\* an SPI call with bytes 0x1F0, 0x10F and mode 5 has finished and returned
\* the 19 frames that the call with 0xF0, 0x0F and mode 1 returned before
C17_Witness ==
    /\ gen = "SPI" /\ pc = "done"
    /\ args = [dataTx |-> 496, dataRx |-> 271, mode |-> 5]
    /\ Len(frames) = 19
    /\ \E r \in returned :
          /\ r.gen = "SPI"
          /\ r.args = [dataTx |-> 240, dataRx |-> 15, mode |-> 1]
          /\ r.frames = frames

\* ---------------------------------------------------------------- C18
\* the input voltage lies between 0 and the reference
InRange == RGe(inputVoltage, Zero) /\ RGe(args.vRef, inputVoltage)

\* the running approximation before the k-th step record (k from 1)
ApproxBefore(k) == IF k = 1 THEN Zero ELSE steps[k - 1].currentApproximation

StepRecordsAsSpecified ==
    (gen = "ADC" /\ pc # "ready" /\ args.resolution >= 1 /\ InRange) =>
        /\ Len(steps) = i
        /\ Len(steps) <= args.resolution
        /\ pc \in {"render", "done"} => Len(steps) = args.resolution
        /\ \A k \in 1..Len(steps) :
              LET trial == RAdd(ApproxBefore(k), RDiv(args.vRef, RInt(2 ^ k)))
              IN  /\ steps[k].bitIndex = args.resolution - k
                  /\ steps[k].trialVoltage = trial
                  /\ steps[k].decision \in {0, 1}
                  /\ steps[k].decision = 1 <=> RGe(inputVoltage, trial)
                  /\ steps[k].currentApproximation =
                         IF RGe(inputVoltage, trial) THEN trial
                                                     ELSE ApproxBefore(k)

\* C18: for a resolution N >= 1 and an input voltage in [0, vRef] the
\* successive-approximation loop comes to its end with exactly N step
\* records; the record of iteration i (0..N-1) has bit index N-1-i, its trial
\* voltage is the approximation before it (0 at first) plus vRef / 2^(i+1),
\* its decision is 1 exactly when the input is at or above the trial
\* voltage, and the approximation after it is the trial voltage if the bit
\* is kept and the approximation before it otherwise.
C18_SARSteps == [](StepRecordsAsSpecified) /\ <>(pc = "done")

\* the default render (4 bits, 3.3 V, input 1.65 V) has finished: the
\* first trial equals the input and its bit is kept, the three others are
\* dropped
C18_Witness ==
    /\ gen = "ADC" /\ pc = "done"
    /\ args.resolution = 4 /\ args.vRef = dacVRef
    /\ inputVoltage = Rat(165, 100)
    /\ Len(steps) = 4
    /\ steps[1].trialVoltage = inputVoltage
    /\ <<steps[1].decision, steps[2].decision, steps[3].decision,
         steps[4].decision>> = <<1, 0, 0, 0>>
    /\ steps[4].bitIndex = 0

C20_DualSlopeRatio ==
    (gen = "ADC" /\ pc = "done" /\ args.resolution >= 1 /\ InRange) =>
        LET T2 == adcOut.t2
            code == adcOut.dualSlopeCount
            full == 2 ^ args.resolution - 1
            n == T2[1] * full
            d == T2[2] * t1
        IN  /\ T2[1] * args.vRef[1] * inputVoltage[2]
                 = inputVoltage[1] * args.vRef[2] * T2[2] * t1
            /\ 2 * code * d - d <= 2 * n
            /\ 2 * n < 2 * code * d + d
            /\ inputVoltage = Zero => (T2 = Zero /\ code = 0)
            /\ inputVoltage = args.vRef => (T2 = RInt(t1) /\ code = full)
            /\ args.mode = "dual-slope" => adcOut.finalDigitalValue = code

\* the 4-bit dual-slope converter at 3.3 V with 1.65 V at its input: T2 is
\* half of T1 and the code is 8, the half of 7.5 rounded up
C20_Witness ==
    /\ gen = "ADC" /\ pc = "done" /\ args.mode = "dual-slope"
    /\ args.resolution = 4 /\ args.vRef = dacVRef
    /\ inputVoltage = Rat(165, 100)
    /\ adcOut.t2 = RInt(50)
    /\ adcOut.dualSlopeCount = 8
    /\ adcOut.finalDigitalValue = 8

\* ---------------------------------------------------------------- C21
\* the code lies within the resolution
CodeInRange == 0 <= args.value /\ args.value <= 2 ^ args.resolution - 1

\* C21: for a resolution N and a code D in 0..2^N-1 the output voltage is
\* vRef * D / 2^N; the switch of ladder node i points at the reference rail
\* exactly when bit i of D is 1 and at the ground rail otherwise; the bits
\* shown are those of D, most significant first; and the voltage of D is
\* above that of D - 1.
C21_DACLinear ==
    (gen = "DAC" /\ pc = "done" /\ args.resolution >= 1 /\ CodeInRange) =>
        LET N == args.resolution
            D == args.value
            out == dacOut.outputVoltage
        IN  /\ out[1] * args.vRef[2] * 2 ^ N = args.vRef[1] * D * out[2]
            /\ Len(dacOut.switches) = N
            /\ \A n \in 0..(N - 1) :
                  /\ (D \div 2 ^ n) % 2 = 1 =>
                        dacOut.switches[n + 1].targetY = railVRefY
                  /\ (D \div 2 ^ n) % 2 = 0 =>
                        dacOut.switches[n + 1].targetY = railGndY
                  /\ dacOut.bits[N - n] = (D \div 2 ^ n) % 2
            /\ D >= 1 =>
                  /\ RGe(out, DACValues(N, args.vRef, D - 1).outputVoltage)
                  /\ out # DACValues(N, args.vRef, D - 1).outputVoltage

\* the application's converter (4 bits, 3.3 V) at its first code 8: 1.65 V,
\* the switch of node 3 at the reference rail, the others at ground
C21_Witness ==
    /\ gen = "DAC" /\ pc = "done"
    /\ args = [resolution |-> 4, vRef |-> dacVRef, value |-> 8]
    /\ dacOut.outputVoltage = Rat(165, 100)
    /\ dacOut.bits = <<1, 0, 0, 0>>
    /\ dacOut.switches[4].targetY = railVRefY
    /\ dacOut.switches[1].targetY = railGndY

\* ---------------------------------------------------------------- C22
\* C22 as stated: for any code D, in range or not, the render's output
\* voltage, bits and switches are those of D mod 2^N. The code weighs the
\* whole of D (line 13), only the bits are cut to N.
C22_OutOfRangeMasked ==
    (gen = "DAC" /\ pc = "done" /\ args.resolution >= 1) =>
        LET masked == DACValues(args.resolution, args.vRef,
                                args.value % (2 ^ args.resolution))
        IN  /\ dacOut.bits = masked.bits
            /\ dacOut.switches = masked.switches
            /\ dacOut.outputVoltage = masked.outputVoltage

\* ---------------------------------------------------------------- C23
\* C23 as stated: a converter given a resolution N <= 0 signals the violated
\* precondition and never completes a render with a result.
C23_InvalidResolutionFailsFast ==
    (gen \in {"DAC", "ADC"} /\ args.resolution <= 0) => pc # "done"

\* ---------------------------------------------------------------- C25
\* the smaller of the two 7-bit addresses
WinnerAddr ==
    IF args.addrA % 128 < args.addrB % 128
      THEN args.addrA % 128 ELSE args.addrB % 128

\* the clock-high frames of address bit n
ClockHigh(n) ==
    {k \in Slot("A" \o DigitStr(n), "address") : frames[k].scl = 1}

\* C25: when the low 7 bits of the two addresses differ, the master tagged
\* active in the last frame of the finished arbitration trace is the one
\* with the smaller 7-bit address, the other is tagged lost, and the bus
\* SDA in the clock-high frame of each address bit A6..A0, read most
\* significant bit first, gives that smaller address.
C25_SmallerAddressWins ==
    (gen = "ARB" /\ pc = "done" /\ args.addrA % 128 # args.addrB % 128) =>
        LET last == frames[Len(frames)]
            aWins == args.addrA % 128 < args.addrB % 128
        IN  /\ last.masterAState = (IF aWins THEN "active" ELSE "lost")
            /\ last.masterBState = (IF aWins THEN "lost" ELSE "active")
            /\ \A n \in 0..6 : Cardinality(ClockHigh(n)) = 1
            /\ Weigh([n \in 0..6 |->
                        frames[CHOOSE k \in ClockHigh(n) : TRUE].sda], 6)
                 = WinnerAddr

\* Arbitration(0x25, 0x21): master B wins and the bus carries 0x21
C25_Witness ==
    /\ gen = "ARB" /\ pc = "done"
    /\ args = [addrA |-> 37, addrB |-> 33]
    /\ frames[Len(frames)].masterBState = "active"
    /\ frames[Len(frames)].masterAState = "lost"
    /\ Weigh([n \in 0..6 |->
                frames[CHOOSE k \in ClockHigh(n) : TRUE].sda], 6) = 33

\* ---------------------------------------------------------------- C26
\* floor(v * 2^N / vRef) for fractions v >= 0 and vRef > 0
ScaledFloor(v, vRef, N) == (v[1] * vRef[2] * 2 ^ N) \div (v[2] * vRef[1])

ValidHex(text) ==
    Len(text) >= 1 /\ \A k \in 1..Len(text) : IsHexDigit(text[k])

\* C29 as stated: whenever the texts of the two hexadecimal fields of the
\* selected protocol are valid hexadecimal, the prepared trace is the
\* generator's trace for their integer values, the value zero included; a
\* default stands in only for a text that is not valid hexadecimal.
C29_ValidHexIsPassed ==
    (gen = "APP" /\ app.frames # <<>>) =>
        /\ (app.protocol = "I2C" /\ app.i2cMode = "standard"
              /\ ValidHex(app.i2cAddr) /\ ValidHex(app.i2cData)) =>
                 app.frames = generateI2CSequence(HexValue(app.i2cAddr),
                                                  HexValue(app.i2cData))
        /\ (app.protocol = "I2C" /\ app.i2cMode = "arbitration"
              /\ ValidHex(app.arbAddrA) /\ ValidHex(app.arbAddrB)) =>
                 app.frames =
                   generateArbitrationSequence(HexValue(app.arbAddrA),
                                               HexValue(app.arbAddrB))
        /\ (app.protocol = "SPI"
              /\ ValidHex(app.spiDataTx) /\ ValidHex(app.spiDataRx)) =>
                 app.frames = generateSPISequence(HexValue(app.spiDataTx),
                                                  HexValue(app.spiDataRx),
                                                  app.spiMode)

\* ---------------------------------------------------------------- C27
\* -1 <= currentIndex < n, and -1 while there is no trace
IndexInRange ==
    gen = "APP" =>
        /\ app.currentIndex >= 0 - 1
        /\ app.currentIndex < (IF Len(app.frames) = 0 THEN 0 ELSE Len(app.frames))

\* a run goes on: the index stays or moves to the next frame, the frames stay
RunAdvances ==
    (app.isPlaying /\ app'.isPlaying) =>
        /\ app'.currentIndex \in {app.currentIndex, app.currentIndex + 1}
        /\ app'.frames = app.frames

\* a run ends without a reset: on the last frame, which stays current
RunEndsOnLastFrame ==
    (app.isPlaying /\ ~app'.isPlaying /\ app'.frames # <<>>) =>
        /\ app.currentIndex = Len(app.frames) - 1
        /\ app'.currentIndex = app.currentIndex
        /\ app'.frames = app.frames

\* a run begins: on frame 0 of a non-empty trace of UART, I2C or SPI
RunBeginsAtZero ==
    (~app.isPlaying /\ app'.isPlaying) =>
        /\ app'.currentIndex = 0
        /\ app'.frames # <<>>
        /\ app.frames # <<>> => app'.frames = app.frames
        /\ app.protocol \in {"UART", "I2C", "SPI"}

\* while no run is on, the frames change only by being prepared or emptied
IdleKeepsFrames ==
    (~app.isPlaying /\ ~app'.isPlaying) =>
        (app'.frames = app.frames \/ app'.frames = <<>>)

\* Start is pressed where it has no trace to play
StartWithoutTrace ==
    /\ startSimulation
    /\ \/ app.protocol \in {"DAC", "ADC"}
       \/ Len(app.frames) = 0 /\ Len(prepareSimulation(app).newFrames) = 0

Playing == gen = "APP" /\ app.isPlaying
NotPlaying == gen = "APP" /\ ~app.isPlaying

\* C27 as stated: a run started on a non-empty trace of n frames shows the
\* frames 0, 1, ..., n-1 in this order, each once, then the timer fires once
\* more and ends the run on frame n-1; every run ends; -1 <= currentIndex <
\* n throughout; playback leaves the frames as they are; and Start changes
\* nothing for DAC and ADC or when the prepared trace is empty.
C27_PlaybackStartInert ==
    /\ []IndexInRange
    /\ [][/\ RunAdvances
          /\ RunEndsOnLastFrame
          /\ RunBeginsAtZero
          /\ IdleKeepsFrames
          /\ StartWithoutTrace => app' = app]_vars
    /\ (Playing ~> NotPlaying)

\* C27, amended: the same, but Start where it has no trace to play leaves
\* frames, currentIndex, isPlaying and log as they are and, when it is the
\* prepared trace that is empty, removes the explanation on display.
C27_Playback ==
    /\ []IndexInRange
    /\ [][/\ RunAdvances
          /\ RunEndsOnLastFrame
          /\ RunBeginsAtZero
          /\ IdleKeepsFrames
          /\ StartWithoutTrace =>
                app' = [app EXCEPT !.aiResponse =
                           IF app.protocol \in {"DAC", "ADC"} THEN @ ELSE null]]_vars
    /\ (Playing ~> NotPlaying)

\* the UART run of 'K' has ended on its last frame, 11
C27_Witness ==
    /\ gen = "APP" /\ app.protocol = "UART"
    /\ app.uartInput = INITIAL_UART_CHAR
    /\ ~app.isPlaying
    /\ Len(app.frames) = 12 /\ app.currentIndex = 11
    /\ app.logs[1].message = <<"Transmission Complete">>

\* ---------------------------------------------------------------- C28
\* what the trace depends on
InputsOf(a) ==
    <<a.protocol, a.i2cMode, a.uartInput, a.i2cAddr, a.i2cData,
      a.arbAddrA, a.arbAddrB, a.spiDataTx, a.spiDataRx, a.spiMode>>

\* a non-empty frames is the trace of the selected protocol and I2C mode
\* for the fields as they stand
TraceIsCurrent ==
    (gen = "APP" /\ app.frames # <<>>) =>
        app.frames = prepareSimulation(app).newFrames

\* C28: in every reachable state of the App a non-empty frames is the
\* output of the generator of the selected protocol and I2C mode for the
\* current field values, and every step that changes the protocol, the I2C
\* mode or an input field leaves frames empty, currentIndex -1 and the
\* playback stopped.
C28_TraceIsCurrent ==
    /\ []TraceIsCurrent
    /\ [][InputsOf(app') # InputsOf(app) =>
            /\ app'.frames = <<>>
            /\ app'.currentIndex = 0 - 1
            /\ ~app'.isPlaying]_vars

\* after the switch to I2C and a change of the address field to "1g" a run
\* is on, over the trace of address 1 and the data byte 0x15
C28_Witness ==
    /\ gen = "APP" /\ app.protocol = "I2C" /\ app.i2cMode = "standard"
    /\ app.i2cAddr = <<"1", "g">>
    /\ app.isPlaying /\ app.currentIndex > 0
    /\ app.frames = generateI2CSequence(1, INITIAL_I2C_DATA)

\* ---------------------------------------------------------------- C24
\* the App apart from aiThinking, aiResponse, the log and the calls in flight
Rest(a) ==
    [a EXCEPT !.aiThinking = FALSE, !.aiResponse = null, !.logs = <<>>,
              !.inFlight = <<>>]

\* what the claim lets a call settle to
Degraded(service) ==
    IF ~service.apiKey \/ service.rejects THEN FallbackText
    ELSE IF service.text = "" THEN NoAnswerText
    ELSE service.text

\* C24: getExplanation never throws: a call without API key or with a
\* failing request settles to the fixed fallback string, an empty answer
\* to the fixed "couldn't generate" string; and a step that issues or
\* settles a request, whatever the playback is doing, changes only
\* aiThinking, aiResponse and the log: frames, currentIndex and isPlaying
\* stay as they are.
C24_ExplanationIsIsolated ==
    [][app'.inFlight # app.inFlight =>
          /\ Rest(app') = Rest(app)
          /\ app'.frames = app.frames
          /\ app'.currentIndex = app.currentIndex
          /\ app'.isPlaying = app.isPlaying
          /\ Len(app'.inFlight) < Len(app.inFlight) =>
                \E k \in 1..Len(app.inFlight) :
                    /\ app'.inFlight = Without(app.inFlight, k)
                    /\ app'.aiResponse =
                         {Degraded(app.inFlight[k].service)}
                    /\ ~app'.aiThinking
                    /\ app'.logs = aiLogged(app).logs]_vars

\* a call made without API key has settled to the fallback string while
\* the run it was issued in is still on, past its first frame
C24_Witness ==
    /\ gen = "APP"
    /\ app.aiResponse = {FallbackText}
    /\ app.inFlight = <<>>
    /\ app.isPlaying /\ app.currentIndex > 0
    /\ app.logs[1].source = "AI"

\* ---------------------------------------------------------------- C30
\* C30 as stated: while a call of getExplanation is in flight aiThinking is
\* true and aiResponse is null, however the calls and their settling
\* interleave.
C30_ThinkingWhileInFlight ==
    (gen = "APP" /\ Len(app.inFlight) > 0) =>
        app.aiThinking /\ app.aiResponse = null

====
